---- MODULE Spec2Model ----
(***************************************************************************)
(* Model of the HR dashboard: access resolution (getAccessContextByEmail,   *)
(* fetchReportingStructure), the weekly office-attendance compliance       *)
(* computation (getWeekStart, groupByWeek, calculateWeeklyCompliance,      *)
(* getCurrentWeekStatus), the report requests (getQuebecComplianceReport,  *)
(* getDailySummaryData), the productivity actions                          *)
(* (getTeamProductivityData, getEmployeeProductivityData) behind the       *)
(* manager access context, the route /api/cron/sync, the sync actions      *)
(* (syncEmployees, syncProductivityData, runFullSync) over the tables of   *)
(* lib/db/queries.ts, and the Oracle client (lib/db/oracle.ts).            *)
(*                                                                         *)
(* Strings that the code lowercases or trims are sequences of              *)
(* one-character strings, so that toLowerCase and trim are computed.       *)
(* A null / undefined email is the empty sequence (both are falsy in the   *)
(* code's `emp.workEmail` tests); a null id is the string "null".          *)
(***************************************************************************)
EXTENDS Integers, Sequences, FiniteSets, TLC

VARIABLES
    \* ---- access resolution (getAccessContextByEmail) ----
    allEmployees,    \* the directory snapshot fetchEmployeeDirectory returns
    userEmail,       \* the argument of getAccessContextByEmail
    pc,              \* position in getAccessContextByEmail
    currentUser,     \* the employee found for the requester, or NoEmployee
    callStack,       \* activation records of findReports: [supId, i]
    visited,         \* fetchReportingStructure's visited set
    reports,         \* fetchReportingStructure's reports array
    accessContext,   \* the returned EmailBasedAccessContext
    fetchFailed,     \* TRUE once a directory fetch has thrown
    steps,           \* history: findReports loop steps executed so far
    \* ---- the process's environment ----
    tzOffset,        \* local time minus UTC, in hours (TZ of the server)
    \* ---- getWeekStart on its own ----
    dateArg,         \* the Date passed to getWeekStart
    weekStartOut,    \* the set holding the Date it returned; empty before
    \* ---- weekly compliance of one employee (getQuebecComplianceReport) ----
    today,           \* new Date() at the start of the report
    empAttendance,   \* the employee's OfficeAttendanceRecord[]
    wpc,             \* position in the per-employee computation
    weeklyRecords,   \* the Map groupByWeek returned
    weeks,           \* the WeeklyCompliance[] calculateWeeklyCompliance returned
    currentWeekStatus,  \* what getCurrentWeekStatus(weeks, today) returned
    \* ---- one report request: getQuebecComplianceReport(filterEmail, weeksBack)
    \*      or getDailySummaryData(filterEmail) ----
    reportKind,      \* which of the two actions was called
    rpc,             \* position in the action
    allowedEmails,   \* {} while undefined, else the set holding the array
    quebecEmployees, \* the employees the report is built for
    attendanceTable, \* the rows of the attendance source (environment)
    fetchEmails,     \* the emails arguments of the data fetches issued so far
    attendanceData,  \* what the data fetch returned
    report,          \* the returned report
    \* ---- one productivity request: getTeamProductivityData(params) or
    \*      getEmployeeProductivityData(params) ----
    productivityCall,  \* which of the two actions was called
    ppc,             \* position in the action
    managerContext,  \* getManagerAccessContext(): {} for null, else {context}
    accessibleEmployeeIds,  \* what getAccessibleEmployeeIds() resolves to
    summaryTable,    \* the rows of the grouped productivity query (environment)
    requestParams,   \* the action's params
    sortedData,      \* getTeamProductivityData's data array after data.sort
    hasAccess,       \* canAccessEmployeeData(employeeId)
    employeeById,    \* getEmployeeById(employeeId): {} for null, else {employee}
    productivityRows,  \* productivity: the employee's ProductivityDaily[] of the date range
    returned,        \* the returned value: {} for null, else {value}
    \* ---- one request to /api/cron/sync ----
    CRON_SECRET,     \* process.env.CRON_SECRET: {} for undefined, else {string}
    request,         \* the NextRequest: method, authorization header, query
    cpc,             \* position in the route handler
    syncsStarted,    \* history: the sync operations started so far
    response,        \* the response: {} before, else {response}
    \* ---- the signed-in user and the database (manager-access, queries) ----
    hasClerkKeys,    \* whether NEXT_PUBLIC_CLERK_PUBLISHABLE_KEY is set
    clerkSession,    \* what Clerk's auth() / currentUser() yield
    dbQueries,       \* whether import('@/lib/db/queries') succeeds
    database,        \* the tables: hr_employees, hr_admin_users, ...
    \* ---- the sync actions (syncEmployees, syncProductivityData, runFullSync) ----
    bambooDirectory, \* what fetchEmployeeDirectory returns at present
    activityRows,    \* the validated rows BigQuery holds for the date range
    syncCall,        \* the action called; "none" when none is
    syncStep,        \* the sync function running: "employees" or "productivity"
    spc,             \* position in the running sync function
    syncId,          \* its syncId: {} for undefined, else {id}
    fetchedRecords,  \* its bambooEmployees resp. productivityData
    cursor,          \* the records its for loop has passed
    counts,          \* its processed, created, updated and failed counters
    syncResults,     \* the SyncResult of each step: {} before, else {result}
    syncOutcome,     \* "none", or how the action called ended
    syncLog,         \* history: the steps started and ended, in order
    syncsRun,        \* history: the actions that have ended so far
    \* ---- the Oracle client (lib/db/oracle.ts) and its callers ----
    pool,            \* the module's pool: {} for null, else {pool}
    autoCommit,      \* oracledb.autoCommit
    createPoolCalls, \* history: the callers whose initializePool called createPool
    opc,             \* each caller's position in executeTransaction
    connections,     \* each caller's connection: {} for null, else {connection}
    executed,        \* the statements each caller's callback has executed
    pending,         \* each connection's uncommitted statements
    persisted,       \* the statements whose effects are committed
    txOutcome        \* how each caller's executeTransaction ended

accessVars == <<allEmployees, userEmail, pc, currentUser, callStack,
                visited, reports, accessContext, fetchFailed, steps>>

calendarVars == <<dateArg, weekStartOut>>

weeklyVars == <<today, empAttendance, wpc, weeklyRecords, weeks,
                currentWeekStatus>>

reportVars == <<reportKind, rpc, allowedEmails, quebecEmployees, attendanceTable,
                fetchEmails, attendanceData, report>>

productivityVars == <<productivityCall, ppc, managerContext,
                      accessibleEmployeeIds, summaryTable, requestParams,
                      sortedData, hasAccess, employeeById, productivityRows,
                      returned>>

cronVars == <<CRON_SECRET, request, cpc, syncsStarted, response>>

sessionVars == <<hasClerkKeys, clerkSession, dbQueries, database>>

syncVars == <<bambooDirectory, activityRows, syncCall, syncStep, spc, syncId,
              fetchedRecords, cursor, counts, syncResults, syncOutcome,
              syncLog, syncsRun>>

oracleVars == <<pool, autoCommit, createPoolCalls, opc, connections, executed,
                pending, persisted, txOutcome>>

backendVars == <<sessionVars, syncVars, oracleVars>>

\* what each part of the model leaves alone
nonAccessVars == <<tzOffset, calendarVars, weeklyVars, reportVars,
                   productivityVars, cronVars, backendVars>>
nonCalendarVars == <<accessVars, weeklyVars, reportVars, productivityVars,
                     cronVars, backendVars>>
nonWeeklyVars == <<accessVars, calendarVars, reportVars, productivityVars,
                   cronVars, backendVars>>

vars == <<accessVars, tzOffset, calendarVars, weeklyVars, reportVars,
          productivityVars, cronVars, backendVars>>

-----------------------------------------------------------------------------
(* Bounds *)

\* number of employees in the directory snapshot
NumEmployees == 3

\* most attendance records of one employee in a report
MaxRecords == 3

\* the weeksBack argument of getQuebecComplianceReport (4 when omitted)
weeksBack == 2

-----------------------------------------------------------------------------
(* Strings *)

Range(s) == {s[k] : k \in 1..Len(s)}

LowerChar(c) ==
    CASE c = "A" -> "a"
      [] c = "B" -> "b"
      [] c = "C" -> "c"
      [] c = "D" -> "d"
      [] c = "E" -> "e"
      [] c = "H" -> "h"
      [] c = "R" -> "r"
      [] c = "Z" -> "z"
      [] OTHER -> c

toLowerCase(s) == [k \in 1..Len(s) |-> LowerChar(s[k])]

RECURSIVE trimStart(_)
trimStart(s) == IF s # <<>> /\ Head(s) = " " THEN trimStart(Tail(s)) ELSE s

RECURSIVE trimEnd(_)
trimEnd(s) ==
    IF s # <<>> /\ s[Len(s)] = " " THEN trimEnd(SubSeq(s, 1, Len(s) - 1)) ELSE s

trim(s) == trimEnd(trimStart(s))

-----------------------------------------------------------------------------
(* The directory *)

Null == "null"
NoEmail == <<>>

EmployeeIds == <<"e1", "e2", "e3", "e4", "e5">>
Letters == <<"a", "b", "c", "d", "e">>
UpperLetters == <<"A", "B", "C", "D", "E">>

Ids == {EmployeeIds[i] : i \in 1..NumEmployees}

\* 'admin@company.com' and 'hr@jestais.com', abbreviated to two characters
HR_ADMIN_EMAILS == << <<"a", "d">>, <<"h", "r">> >>

\* An employee differs from a plain one (active, lowercase email, reporting
\* through supervisorId) in at most one way; at most one employee does.
Deviations ==
    {<<"none", 1>>} \cup
    ({"inactive", "noEmail", "upperEmail", "viaEId"} \X (1..NumEmployees))

BambooHREmployee(i, sup, dev) ==
    [ id            |-> EmployeeIds[i],
      workEmail     |-> IF dev = <<"noEmail", i>> THEN NoEmail
                        ELSE IF dev = <<"upperEmail", i>> THEN <<UpperLetters[i]>>
                        ELSE <<Letters[i]>>,
      supervisorId  |-> IF dev = <<"viaEId", i>> THEN Null ELSE sup[i],
      supervisorEId |-> IF dev = <<"viaEId", i>> THEN sup[i] ELSE Null,
      status        |-> IF dev = <<"inactive", i>> THEN "Inactive" ELSE "Active" ]

Directories ==
    { [i \in 1..NumEmployees |-> BambooHREmployee(i, sup, dev)] :
        sup \in [1..NumEmployees -> Ids \cup {Null}], dev \in Deviations }

\* emp.status?.toLowerCase() !== 'inactive'
IsActive(emp) == emp.status # "Inactive"

\* requester inputs: employees' emails as typed, an HR admin, a stranger
RequesterEmails ==
    { <<"a">>, <<" ", "A", " ">>, <<"b">>, <<"c">>, <<"H", "r">>, <<"z", " ">> }

NoEmployee == [id |-> Null]
NoContext == [userEmail |-> NoEmail]

-----------------------------------------------------------------------------
(* Dates *)
(* A Date is its time value in hours since 2024-01-01T00:00Z.  The local   *)
(* fields (getDay, getDate, setDate, setHours) are those of the time value *)
(* shifted by tzOffset; toISOString is UTC.  Day 0 is Monday 2024-01-01;   *)
(* the calendar modelled runs from November 2023 to December 2024 and the  *)
(* zone has no daylight-saving change.                                     *)

\* first day of each month from November 2023 to December 2024, as a day
\* number (1 January 2024 is day 0)
MonthStarts ==
    <<-61, -31, 0, 31, 60, 91, 121, 152, 182, 213, 244, 274, 305, 335>>

\* the days of 2024
Days2024 == 0 .. 365

\* TZ offsets the server may run under (America/Toronto winter, UTC, UTC+2)
TimeZoneOffsets == {-5, 0, 2}

LocalDay(t) == (t + tzOffset) \div 24
LocalHour(t) == (t + tzOffset) % 24

\* the first day of the month that day D lies in
MonthStart(D) ==
    LET starts == {MonthStarts[m] : m \in 1..Len(MonthStarts)}
    IN  CHOOSE f \in starts : f <= D /\ \A g \in starts : g <= D => g <= f

\* the weekday of the calendar: 0 = Sunday .. 6 = Saturday
DayOfWeek(D) == (D + 1) % 7

\* Date.prototype.getDay / getDate (local time)
getDay(t) == DayOfWeek(LocalDay(t))
getDate(t) == LocalDay(t) - MonthStart(LocalDay(t)) + 1

\* Date.prototype.setDate(n): day n of the current local month, counted past
\* either end of the month when n is out of its range; the local time of day
\* is kept
setDate(t, n) == t + ((MonthStart(LocalDay(t)) + n - 1) - LocalDay(t)) * 24

\* Date.prototype.setHours(0, 0, 0, 0): local midnight
setHoursZero(t) == t - LocalHour(t)

\* the adjustment of getWeekStart without its Sunday case
SundayAdjustMissing(day) == 1

\* (day === 0 ? -6 : 1)
SundayAdjust(day) == IF day = 0 THEN -6 ELSE 1

\* getWeekStart(date): the Monday of the week of date, at local midnight
getWeekStart(date) ==
    LET day  == getDay(date)
        diff == getDate(date) - day + SundayAdjust(day)
    IN  setHoursZero(setDate(date, diff))

\* getWeekEnd(date): weekEnd.setDate(weekStart.getDate() + 6)
getWeekEnd(date) ==
    LET weekStart == getWeekStart(date)
    IN  setDate(weekStart, getDate(weekStart) + 6)

\* formatDate(date) = date.toISOString().split('T')[0]: the UTC calendar
\* date, represented by its day number (the strings of one year compare as
\* their day numbers do)
formatDate(t) == t \div 24

\* new Date('YYYY-MM-DD'): UTC midnight of that date
parseDate(dayKey) == dayKey * 24

\* states of the parts of the model a specification does not exercise
AccessIdle ==
    /\ allEmployees = <<>>
    /\ userEmail = <<>>
    /\ pc = "idle"
    /\ currentUser = NoEmployee
    /\ callStack = <<>>
    /\ visited = {}
    /\ reports = <<>>
    /\ accessContext = NoContext
    /\ fetchFailed = FALSE
    /\ steps = 0

CalendarIdle ==
    /\ dateArg = 0
    /\ weekStartOut = {}

WeeklyIdle ==
    /\ today = 0
    /\ empAttendance = <<>>
    /\ wpc = "idle"
    /\ weeklyRecords = <<>>
    /\ weeks = <<>>
    /\ currentWeekStatus = "none"

NoReport == [employees |-> <<>>]

NoDatabase == [hr_employees |-> <<>>]

SessionIdle ==
    /\ hasClerkKeys = FALSE
    /\ clerkSession = [userId |-> "none"]
    /\ dbQueries = FALSE
    /\ database = NoDatabase

NoCounts == [processed |-> 0, created |-> 0, updated |-> 0, failed |-> 0]
NoResults == [employees |-> {}, productivity |-> {}]

SyncIdle ==
    /\ bambooDirectory = <<>>
    /\ activityRows = <<>>
    /\ syncCall = "none"
    /\ syncStep = "none"
    /\ spc = "idle"
    /\ syncId = {}
    /\ fetchedRecords = <<>>
    /\ cursor = 0
    /\ counts = NoCounts
    /\ syncResults = NoResults
    /\ syncOutcome = "none"
    /\ syncLog = <<>>
    /\ syncsRun = 0

\* concurrent callers of executeTransaction
Callers == {"c1", "c2"}

OracleIdle ==
    /\ pool = {}
    /\ autoCommit = FALSE
    /\ createPoolCalls = <<>>
    /\ opc = [c \in Callers |-> "idle"]
    /\ connections = [c \in Callers |-> {}]
    /\ executed = [c \in Callers |-> 0]
    /\ pending = [c \in Callers |-> {}]
    /\ persisted = {}
    /\ txOutcome = [c \in Callers |-> "none"]

BackendIdle == SessionIdle /\ SyncIdle /\ OracleIdle

CronIdle ==
    /\ CRON_SECRET = {}
    /\ request = [method |-> "none"]
    /\ cpc = "idle"
    /\ syncsStarted = <<>>
    /\ response = {}

ProductivityIdle ==
    /\ productivityCall = "none"
    /\ ppc = "idle"
    /\ managerContext = {}
    /\ accessibleEmployeeIds = {}
    /\ summaryTable = <<>>
    /\ requestParams = [sortBy |-> "none"]
    /\ sortedData = <<>>
    /\ hasAccess = FALSE
    /\ employeeById = {}
    /\ productivityRows = <<>>
    /\ returned = {}

ReportIdle ==
    /\ reportKind = "none"
    /\ rpc = "idle"
    /\ allowedEmails = {}
    /\ quebecEmployees = <<>>
    /\ attendanceTable = <<>>
    /\ fetchEmails = <<>>
    /\ attendanceData = <<>>
    /\ report = NoReport

-----------------------------------------------------------------------------
(* fetchActiveEmployees / fetchReportingStructure (bamboohr/client.ts) *)

\* allEmployees.filter(emp => status is not 'inactive' && emp.workEmail)
fetchActiveEmployees(all) ==
    SelectSeq(all, LAMBDA emp : IsActive(emp) /\ emp.workEmail # NoEmail)

\* the condition under which findReports(supId) collects emp, dropping the
\* visited test (a traversal that does not guard against cycles)
ShouldVisitUnguarded(emp, supId, seen) ==
    emp.supervisorId = supId \/ emp.supervisorEId = supId

\* (emp.supervisorId === supId || emp.supervisorEId === supId) && !visited.has(emp.id)
ShouldVisit(emp, supId, seen) ==
    /\ (emp.supervisorId = supId \/ emp.supervisorEId = supId)
    /\ emp.id \notin seen

-----------------------------------------------------------------------------
(* getAccessContextByEmail (lib/auth/manager-access) *)

\* userEmail.toLowerCase().trim()
normalizedEmail == trim(toLowerCase(userEmail))

\* HR_ADMIN_EMAILS.some(admin => admin.toLowerCase() === normalizedEmail)
isHRAdmin ==
    \E k \in 1..Len(HR_ADMIN_EMAILS) :
        toLowerCase(HR_ADMIN_EMAILS[k]) = normalizedEmail

\* allEmployees.find(emp => emp.workEmail?.toLowerCase() === normalizedEmail)
FindUser(all, email) ==
    LET hits == {i \in 1..Len(all) :
                    /\ all[i].workEmail # NoEmail
                    /\ toLowerCase(all[i].workEmail) = email}
    IN  IF hits = {} THEN NoEmployee
        ELSE all[CHOOSE i \in hits : \A j \in hits : i <= j]

\* allEmployees.filter(emp => emp.workEmail).map(emp => emp.workEmail.toLowerCase())
AllEmails(all) ==
    LET withEmail == SelectSeq(all, LAMBDA emp : emp.workEmail # NoEmail)
    IN  [k \in 1..Len(withEmail) |-> toLowerCase(withEmail[k].workEmail)]

AdminContext(all, email) ==
    [ userEmail        |-> email,
      employeeId       |-> Null,
      isHRAdmin        |-> TRUE,
      isManager        |-> TRUE,
      allowedEmails    |-> AllEmails(all),
      directReportCount |-> Len(AllEmails(all)),
      totalReportCount |-> Len(AllEmails(all)) ]

\* a self-only context that leaks the whole directory (fall-through to the
\* admin branch)
MinimalContextLeaky(all, email) ==
    [ userEmail        |-> email,
      employeeId       |-> Null,
      isHRAdmin        |-> FALSE,
      isManager        |-> FALSE,
      allowedEmails    |-> AllEmails(all),
      directReportCount |-> Len(AllEmails(all)),
      totalReportCount |-> Len(AllEmails(all)) ]

\* the context returned when the user is not in the directory, and in the
\* catch block
MinimalContext(all, email) ==
    [ userEmail        |-> email,
      employeeId       |-> Null,
      isHRAdmin        |-> FALSE,
      isManager        |-> FALSE,
      allowedEmails    |-> <<email>>,
      directReportCount |-> 0,
      totalReportCount |-> 0 ]

\* Set.add on the insertion-ordered Set that Array.from turns into the array
SetAdd(seq, x) == IF x \in Range(seq) THEN seq ELSE Append(seq, x)

RECURSIVE AddReportEmails(_, _, _)
AddReportEmails(allowed, reps, k) ==
    IF k > Len(reps) THEN allowed
    ELSE AddReportEmails(
             IF reps[k].workEmail # NoEmail
                 THEN SetAdd(allowed, toLowerCase(reps[k].workEmail))
                 ELSE allowed,
             reps, k + 1)

\* the loop counting emp.supervisorId === currentUser.id || emp.supervisorEId === ...
DirectReportCount(all, user) ==
    Cardinality({i \in 1..Len(all) :
                    all[i].supervisorId = user.id \/ all[i].supervisorEId = user.id})

ManagerContext(all, user, reps, email) ==
    [ userEmail        |-> email,
      employeeId       |-> user.id,
      isHRAdmin        |-> FALSE,
      isManager        |-> Len(reps) > 0,
      allowedEmails    |-> AddReportEmails(<<email>>, reps, 1),
      directReportCount |-> DirectReportCount(all, user),
      totalReportCount |-> Len(reps) ]

-----------------------------------------------------------------------------
(* Access resolution as a state machine *)

InitAccess ==
    /\ allEmployees \in Directories
    /\ userEmail \in RequesterEmails
    /\ pc = "fetchDirectory"
    /\ currentUser = NoEmployee
    /\ callStack = <<>>
    /\ visited = {}
    /\ reports = <<>>
    /\ accessContext = NoContext
    /\ fetchFailed = FALSE
    /\ steps = 0
    /\ tzOffset = 0
    /\ CalendarIdle
    /\ WeeklyIdle
    /\ ReportIdle
    /\ ProductivityIdle
    /\ CronIdle
    /\ BackendIdle

\* if (isHRAdmin) return { ... allowedEmails: allEmails ... }
AdminAccess ==
    /\ pc = "fetchDirectory"
    /\ isHRAdmin
    /\ accessContext' = AdminContext(allEmployees, normalizedEmail)
    /\ pc' = "done"
    /\ UNCHANGED <<allEmployees, userEmail, currentUser, callStack, visited,
                   reports, fetchFailed>>
    /\ UNCHANGED steps
    /\ UNCHANGED nonAccessVars

\* if (!currentUser) return { ... allowedEmails: [normalizedEmail] ... }
UserNotFound ==
    /\ pc = "fetchDirectory"
    /\ ~isHRAdmin
    /\ FindUser(allEmployees, normalizedEmail) = NoEmployee
    /\ accessContext' = MinimalContext(allEmployees, normalizedEmail)
    /\ pc' = "done"
    /\ UNCHANGED <<allEmployees, userEmail, currentUser, callStack, visited,
                   reports, fetchFailed>>
    /\ UNCHANGED steps
    /\ UNCHANGED nonAccessVars

\* currentUser found: await fetchReportingStructure(currentUser.id)
UserFound ==
    /\ pc = "fetchDirectory"
    /\ ~isHRAdmin
    /\ FindUser(allEmployees, normalizedEmail) # NoEmployee
    /\ currentUser' = FindUser(allEmployees, normalizedEmail)
    /\ pc' = "fetchReportingStructure"
    /\ UNCHANGED <<allEmployees, userEmail, callStack, visited, reports,
                   accessContext, fetchFailed>>
    /\ UNCHANGED steps
    /\ UNCHANGED nonAccessVars

\* fetchEmployeeDirectory throws (first fetch, or the one inside
\* fetchReportingStructure): the catch block returns the self-only context
FetchThrows ==
    /\ pc \in {"fetchDirectory", "fetchReportingStructure"}
    /\ fetchFailed' = TRUE
    /\ accessContext' = MinimalContext(allEmployees, normalizedEmail)
    /\ pc' = "done"
    /\ UNCHANGED <<allEmployees, userEmail, currentUser, callStack, visited,
                   reports>>
    /\ UNCHANGED steps
    /\ UNCHANGED nonAccessVars

\* fetchReportingStructure: findReports(managerId)
StartFindReports ==
    /\ pc = "fetchReportingStructure"
    /\ callStack' = <<[supId |-> currentUser.id, i |-> 1]>>
    /\ visited' = {}
    /\ reports' = <<>>
    /\ pc' = "findReports"
    /\ UNCHANGED <<allEmployees, userEmail, currentUser, accessContext,
                   fetchFailed>>
    /\ UNCHANGED steps
    /\ UNCHANGED nonAccessVars

Top == callStack[Len(callStack)]
\* fetchReportingStructure fetches the directory again; both fetches of one
\* resolution return the same snapshot
ActiveEmployees == fetchActiveEmployees(allEmployees)
Advance(stack) ==
    [stack EXCEPT ![Len(stack)] = [@ EXCEPT !.i = @ + 1]]

\* loop body, condition true: visited.add; reports.push; findReports(emp.id)
FindReportsVisit ==
    /\ pc = "findReports"
    /\ callStack # <<>>
    /\ Top.i <= Len(ActiveEmployees)
    /\ LET emp == ActiveEmployees[Top.i] IN
        /\ ShouldVisit(emp, Top.supId, visited)
        /\ visited' = visited \cup {emp.id}
        /\ reports' = Append(reports, emp)
        /\ callStack' = Append(Advance(callStack), [supId |-> emp.id, i |-> 1])
    /\ UNCHANGED <<allEmployees, userEmail, pc, currentUser, accessContext,
                   fetchFailed>>
    /\ steps' = steps + 1
    /\ UNCHANGED nonAccessVars

\* loop body, condition false: next employee
FindReportsSkip ==
    /\ pc = "findReports"
    /\ callStack # <<>>
    /\ Top.i <= Len(ActiveEmployees)
    /\ ~ShouldVisit(ActiveEmployees[Top.i], Top.supId, visited)
    /\ callStack' = Advance(callStack)
    /\ UNCHANGED <<allEmployees, userEmail, pc, currentUser, visited, reports,
                   accessContext, fetchFailed>>
    /\ steps' = steps + 1
    /\ UNCHANGED nonAccessVars

\* loop exhausted: findReports returns to its caller
FindReportsReturn ==
    /\ pc = "findReports"
    /\ callStack # <<>>
    /\ Top.i > Len(ActiveEmployees)
    /\ callStack' = SubSeq(callStack, 1, Len(callStack) - 1)
    /\ UNCHANGED <<allEmployees, userEmail, pc, currentUser, visited, reports,
                   accessContext, fetchFailed>>
    /\ steps' = steps + 1
    /\ UNCHANGED nonAccessVars

\* the outermost findReports has returned: build and return the context
ReturnContext ==
    /\ pc = "findReports"
    /\ callStack = <<>>
    /\ accessContext' =
           ManagerContext(allEmployees, currentUser, reports, normalizedEmail)
    /\ pc' = "done"
    /\ UNCHANGED <<allEmployees, userEmail, currentUser, callStack, visited,
                   reports, fetchFailed>>
    /\ UNCHANGED steps
    /\ UNCHANGED nonAccessVars

NextAccess ==
    \/ AdminAccess
    \/ UserNotFound
    \/ UserFound
    \/ FetchThrows
    \/ StartFindReports
    \/ FindReportsVisit
    \/ FindReportsSkip
    \/ FindReportsReturn
    \/ ReturnContext

SpecAccess == InitAccess /\ [][NextAccess]_vars

-----------------------------------------------------------------------------
(* The reporting graph, as the specification defines it *)

\* indices of the employees whose supervisor link names id; activeOnly
\* restricts them to employees that are not inactive
LinkedTo(id, activeOnly) ==
    {i \in 1..Len(allEmployees) :
        /\ allEmployees[i].supervisorId = id \/ allEmployees[i].supervisorEId = id
        /\ activeOnly => IsActive(allEmployees[i])}

RECURSIVE Closure(_, _)
Closure(S, activeOnly) ==
    LET next == S \cup UNION {LinkedTo(allEmployees[i].id, activeOnly) : i \in S}
    IN  IF next = S THEN S ELSE Closure(next, activeOnly)

\* employees reachable from id through one or more supervisor links
ReachableFrom(id, activeOnly) == Closure(LinkedTo(id, activeOnly), activeOnly)

\* no employee is its own (transitive) report
Acyclic ==
    \A i \in 1..Len(allEmployees) : i \notin ReachableFrom(allEmployees[i].id, FALSE)

EmailsOf(S) ==
    {toLowerCase(allEmployees[i].workEmail) :
        i \in {j \in S : allEmployees[j].workEmail # NoEmail}}

ActiveIndices == {i \in 1..Len(allEmployees) : IsActive(allEmployees[i])}

Returned == pc = "done" /\ ~fetchFailed
ReturnedForEmployee == Returned /\ ~isHRAdmin /\ currentUser # NoEmployee

-----------------------------------------------------------------------------
(* Claims about access resolution *)

\* C1: the returned allowedEmails always contains the requester's own
\* trimmed, lowercased email, for every requester and directory (HR admins
\* outside the directory included).
C1_AllowedContainsRequester ==
    pc = "done" => normalizedEmail \in Range(accessContext.allowedEmails)

\* C2: for a requester in the HR-admin allowlist the result has
\* isHRAdmin = TRUE and allowedEmails is exactly the set of lowercased emails
\* of the active employees that have an email (no inactive employee's email).
C2_AdminSeesExactlyActive ==
    (Returned /\ isHRAdmin) =>
        /\ accessContext.isHRAdmin
        /\ Range(accessContext.allowedEmails) = EmailsOf(ActiveIndices)

\* C3: for a non-admin requester found in an acyclic directory, allowedEmails
\* is the requester's email plus the emails of all active employees reachable
\* through one or more supervisor links, and totalReportCount is the number of
\* distinct active employees so reachable.
C3_TransitiveReportsExact ==
    (ReturnedForEmployee /\ Acyclic) =>
        LET reach == ReachableFrom(currentUser.id, TRUE) IN
        /\ Range(accessContext.allowedEmails) = {normalizedEmail} \cup EmailsOf(reach)
        /\ accessContext.totalReportCount = Cardinality(reach)

\* the requester found in the directory is one of their own transitive reports
RequesterOnCycle ==
    /\ ~isHRAdmin
    /\ FindUser(allEmployees, normalizedEmail) # NoEmployee
    /\ \E i \in ReachableFrom(FindUser(allEmployees, normalizedEmail).id, FALSE) :
           allEmployees[i].id = FindUser(allEmployees, normalizedEmail).id

RequesterInCyclicDirectory ==
    /\ ~Acyclic
    /\ ~isHRAdmin
    /\ FindUser(allEmployees, normalizedEmail) # NoEmployee

\* C4: when the supervisor links contain a cycle, the traversal terminates:
\* the call depth never exceeds the number of employees plus one, no employee
\* is collected twice, the number of loop steps taken never exceeds
\* (employees + 1) squared, and the returned allowedEmails contains the
\* requester.
C4_CycleTerminates ==
    RequesterInCyclicDirectory =>
        /\ Len(callStack) <= Len(ActiveEmployees) + 1
        /\ Len(reports) = Cardinality(visited)
        /\ steps <= (Len(ActiveEmployees) + 1) * (Len(ActiveEmployees) + 1)
        /\ pc = "done" => normalizedEmail \in Range(accessContext.allowedEmails)

\* C4 witness: a resolution that has returned after the traversal came back
\* round a three-employee cycle to the requester
C4_Witness ==
    /\ pc = "done"
    /\ ~fetchFailed
    /\ RequesterOnCycle
    /\ currentUser.id \in visited
    /\ Cardinality(visited) >= 3

\* C5: totalReportCount never counts the requester: it is the number of
\* collected employees other than the requester, hence at most the number of
\* active employees minus one for an active requester in the directory.
C5_TotalExcludesSelf ==
    ReturnedForEmployee =>
        /\ accessContext.totalReportCount =
               Cardinality({k \in 1..Len(reports) : reports[k].id # currentUser.id})
        /\ IsActive(currentUser) =>
               accessContext.totalReportCount <= Cardinality(ActiveIndices) - 1

\* C6: a requester who is no HR admin and whose email no directory employee
\* has is given the self-only context: not admin, not manager, both counts 0,
\* allowedEmails exactly the normalized requester email.
C6_UnknownUserSelfOnly ==
    (pc = "done" /\ ~isHRAdmin /\ FindUser(allEmployees, normalizedEmail) = NoEmployee) =>
        /\ accessContext.isHRAdmin = FALSE
        /\ accessContext.isManager = FALSE
        /\ accessContext.directReportCount = 0
        /\ accessContext.totalReportCount = 0
        /\ accessContext.allowedEmails = <<trim(toLowerCase(userEmail))>>

\* C6 witness: an unknown requester, typed with padding, answered without
\* any fetch failure
C6_Witness ==
    /\ Returned
    /\ ~isHRAdmin
    /\ FindUser(allEmployees, normalizedEmail) = NoEmployee
    /\ userEmail # normalizedEmail
    /\ accessContext.allowedEmails = <<normalizedEmail>>

\* C7: for a non-admin requester found in the directory, directReportCount is
\* the number of active employees whose supervisor is the requester, isManager
\* holds exactly when that number is positive, and directReportCount never
\* exceeds totalReportCount.
C7_DirectReportsAndManager ==
    ReturnedForEmployee =>
        /\ accessContext.directReportCount =
               Cardinality(LinkedTo(currentUser.id, TRUE))
        /\ accessContext.isManager <=> Cardinality(LinkedTo(currentUser.id, TRUE)) > 0
        /\ accessContext.directReportCount <= accessContext.totalReportCount

-----------------------------------------------------------------------------
(* getWeekStart on every date of the year *)

InitCalendar ==
    /\ tzOffset \in TimeZoneOffsets
    /\ \E D \in Days2024, h \in {0, 9, 23} : dateArg = D * 24 + h - tzOffset
    /\ weekStartOut = {}
    /\ AccessIdle
    /\ WeeklyIdle
    /\ ReportIdle
    /\ ProductivityIdle
    /\ CronIdle
    /\ BackendIdle

CallGetWeekStart ==
    /\ weekStartOut = {}
    /\ weekStartOut' = {getWeekStart(dateArg)}
    /\ UNCHANGED <<dateArg, tzOffset>>
    /\ UNCHANGED nonCalendarVars

NextCalendar == CallGetWeekStart

SpecCalendar == InitCalendar /\ [][NextCalendar]_vars

\* C10: getWeekStart(d) is d minus ((dayOfWeek(d) + 6) mod 7) days: always a
\* Monday (at local midnight), on or before d and at most 6 days before d.
C10_WeekStartIsMondayOnOrBefore ==
    \A w \in weekStartOut :
        LET D == LocalDay(dateArg)
            W == LocalDay(w)
        IN  /\ W = D - ((DayOfWeek(D) + 6) % 7)
            /\ DayOfWeek(W) = 1
            /\ LocalHour(w) = 0
            /\ w <= dateArg
            /\ D - W <= 6

\* C10 witness: a Sunday in the first days of a month, whose Monday lies in
\* the month before (setDate is called with a day below 1)
C10_Witness ==
    /\ weekStartOut # {}
    /\ DayOfWeek(LocalDay(dateArg)) = 0
    /\ getDate(dateArg) <= 6
    /\ \A w \in weekStartOut : LocalDay(w) = LocalDay(dateArg) - 6

-----------------------------------------------------------------------------
(* groupByWeek / calculateWeeklyCompliance (quebec-compliance-actions.ts) *)

\* OfficeAttendanceRecord: date is UTC midnight of the attendance day
Locations == {"Office", "Remote", "Unknown"}
HoursLogged == {2, 6}
\* Monday 8 and Tuesday 9 January 2024: two days of the first reported week
\* (by its UTC date; in a zone west of UTC the Monday record's local day is
\* the Sunday before, outside the reported range)
AttendanceDays == {7, 8}

OfficeAttendanceRecords ==
    [date : {parseDate(D) : D \in AttendanceDays},
     location : Locations,
     totalHours : HoursLogged]

\* Wednesday 17 January 2024, 10:00 local time
TodayLocal == 16 * 24 + 10

\* endDate = getWeekEnd(today)
ReportEndDate == getWeekEnd(today)

\* startDate.setDate(startDate.getDate() - (weeksBack * 7) + 1)
ReportStartDate ==
    setDate(ReportEndDate, getDate(ReportEndDate) - (weeksBack * 7) + 1)

RECURSIVE WeekKeys(_, _)
\* while (current <= endDate) { weekMap.set(formatDate(current), []);
\*                              current.setDate(current.getDate() + 7) }
WeekKeys(current, endDate) ==
    IF current <= endDate
        THEN {formatDate(current)}
                 \cup WeekKeys(setDate(current, getDate(current) + 7), endDate)
        ELSE {}

\* the Map of week key -> records, each bucket in input order; a record whose
\* week key is not in the Map is dropped
groupByWeek(records, startDate, endDate) ==
    [k \in WeekKeys(getWeekStart(startDate), endDate) |->
        SelectSeq(records, LAMBDA r : formatDate(getWeekStart(r.date)) = k)]

\* a dedup in which every record replaces the day's entry (last one wins)
ReplacesAlways(hasExisting, recordHours, existingHours) == TRUE

\* !existing || record.totalHours > existing.hours
Replaces(hasExisting, recordHours, existingHours) ==
    ~hasExisting \/ recordHours > existingHours

RECURSIVE DayLocations(_, _)
\* dayLocations after the first n records of the week
DayLocations(records, n) ==
    IF n = 0 THEN <<>>
    ELSE LET m   == DayLocations(records, n - 1)
             r   == records[n]
             key == formatDate(r.date)
             has == key \in DOMAIN m
         IN  IF Replaces(has, r.totalHours, IF has THEN m[key].hours ELSE 0)
                 THEN (key :> [location |-> r.location, hours |-> r.totalHours]) @@ m
                 ELSE m

RECURSIVE Ascending(_)
\* the elements of a set of numbers, smallest first
Ascending(S) ==
    IF S = {} THEN <<>>
    ELSE LET lo == CHOOSE x \in S : \A y \in S : x <= y
         IN  <<lo>> \o Ascending(S \ {lo})

Reverse(q) == [k \in 1..Len(q) |-> q[Len(q) + 1 - k]]

\* a week's record in which any two days with data make the week compliant
WeeklyComplianceAnyTwoDays(weekStartStr, records) ==
    LET dayLocations == DayLocations(records, Len(records))
        dates        == Ascending(DOMAIN dayLocations)
        officeDays   == Cardinality({d \in DOMAIN dayLocations :
                                        dayLocations[d].location = "Office"})
        remoteDays   == Cardinality({d \in DOMAIN dayLocations :
                                        dayLocations[d].location = "Remote"})
    IN  [ weekStart      |-> weekStartStr,
          weekEnd        |-> formatDate(getWeekEnd(parseDate(weekStartStr))),
          officeDays     |-> officeDays,
          remoteDays     |-> remoteDays,
          totalDays      |-> officeDays + remoteDays,
          isCompliant    |-> officeDays + remoteDays >= 2,
          dailyBreakdown |-> [k \in 1..Len(dates) |->
                                 [ date     |-> dates[k],
                                   location |-> dayLocations[dates[k]].location,
                                   hours    |-> dayLocations[dates[k]].hours ]] ]

\* one iteration of calculateWeeklyCompliance's outer loop
WeeklyCompliance(weekStartStr, records) ==
    LET dayLocations == DayLocations(records, Len(records))
        dates        == Ascending(DOMAIN dayLocations)
        officeDays   == Cardinality({d \in DOMAIN dayLocations :
                                        dayLocations[d].location = "Office"})
        remoteDays   == Cardinality({d \in DOMAIN dayLocations :
                                        dayLocations[d].location = "Remote"})
    IN  [ weekStart      |-> weekStartStr,
          weekEnd        |-> formatDate(getWeekEnd(parseDate(weekStartStr))),
          officeDays     |-> officeDays,
          remoteDays     |-> remoteDays,
          totalDays      |-> officeDays + remoteDays,
          isCompliant    |-> officeDays >= 2,
          dailyBreakdown |-> [k \in 1..Len(dates) |->
                                 [ date     |-> dates[k],
                                   location |-> dayLocations[dates[k]].location,
                                   hours    |-> dayLocations[dates[k]].hours ]] ]

\* the weeks, most recent first
calculateWeeklyCompliance(weekMap) ==
    LET keys == Reverse(Ascending(DOMAIN weekMap))
    IN  [k \in 1..Len(keys) |-> WeeklyCompliance(keys[k], weekMap[keys[k]])]

-----------------------------------------------------------------------------
(* The weekly compliance of one employee as a state machine *)

InitWeekly ==
    /\ tzOffset \in TimeZoneOffsets
    /\ today = TodayLocal - tzOffset
    /\ empAttendance \in UNION {[1..n -> OfficeAttendanceRecords] : n \in 0..MaxRecords}
    /\ wpc = "groupByWeek"
    /\ weeklyRecords = <<>>
    /\ weeks = <<>>
    /\ currentWeekStatus = "none"
    /\ AccessIdle
    /\ CalendarIdle
    /\ ReportIdle
    /\ ProductivityIdle
    /\ CronIdle
    /\ BackendIdle

\* const weeklyRecords = groupByWeek(empAttendance, startDate, endDate)
GroupByWeek ==
    /\ wpc = "groupByWeek"
    /\ weeklyRecords' = groupByWeek(empAttendance, ReportStartDate, ReportEndDate)
    /\ wpc' = "calculateWeeklyCompliance"
    /\ UNCHANGED <<today, empAttendance, weeks, currentWeekStatus, tzOffset>>
    /\ UNCHANGED nonWeeklyVars

\* const weeks = calculateWeeklyCompliance(weeklyRecords)
CalculateWeeklyCompliance ==
    /\ wpc = "calculateWeeklyCompliance"
    /\ weeks' = calculateWeeklyCompliance(weeklyRecords)
    /\ wpc' = "done"
    /\ UNCHANGED <<today, empAttendance, weeklyRecords, currentWeekStatus, tzOffset>>
    /\ UNCHANGED nonWeeklyVars

NextWeekly ==
    \/ GroupByWeek
    \/ CalculateWeeklyCompliance

SpecWeekly == InitWeekly /\ [][NextWeekly]_vars

-----------------------------------------------------------------------------
(* Claims about the weekly compliance *)

DatesOf(records) == {formatDate(records[k].date) : k \in 1..Len(records)}
EntriesAt(week, loc) ==
    {k \in 1..Len(week.dailyBreakdown) : week.dailyBreakdown[k].location = loc}

\* C8: in every weekly record a day whose deduplicated location is Unknown
\* is counted in totalDays and in neither officeDays nor remoteDays, so a week
\* with only Unknown days has totalDays > 0.
C8_UnknownDaysCountAsData ==
    wpc = "done" =>
        \A i \in 1..Len(weeks) :
            /\ weeks[i].totalDays = Len(weeks[i].dailyBreakdown)
            /\ weeks[i].officeDays = Cardinality(EntriesAt(weeks[i], "Office"))
            /\ weeks[i].remoteDays = Cardinality(EntriesAt(weeks[i], "Remote"))

MondayOf(D) == D - ((DayOfWeek(D) + 6) % 7)

\* the Mondays from the week of the range's first day to the week of its last
MondaysOfRange ==
    {W \in MondayOf(LocalDay(ReportStartDate)) .. MondayOf(LocalDay(ReportEndDate)) :
        DayOfWeek(W) = 1}

\* C11: the week keys groupByWeek produces are exactly the Mondays from
\* weekStart(rangeStart) to weekStart(rangeEnd) in steps of 7 days; a week
\* without records is present with an empty bucket, and each bucket holds,
\* in input order, exactly the records whose week start is its key (a record
\* whose week start is no key is in no bucket).
C11_WeekKeysAreMondays ==
    wpc # "groupByWeek" =>
        /\ DOMAIN weeklyRecords = MondaysOfRange
        /\ \A k \in DOMAIN weeklyRecords :
               weeklyRecords[k] =
                   SelectSeq(empAttendance,
                             LAMBDA r : MondayOf(LocalDay(r.date)) = k)

-----------------------------------------------------------------------------
(* getCurrentWeekStatus (quebec-compliance-actions.ts) *)

\* dayOfWeek === 0 ? 0 : 5 - dayOfWeek
remainingDays(dayOfWeek) == IF dayOfWeek = 0 THEN 0 ELSE 5 - dayOfWeek

getCurrentWeekStatus(ws, now) ==
    LET currentWeekStart == formatDate(getWeekStart(now))
        hits == {i \in 1..Len(ws) : ws[i].weekStart = currentWeekStart}
    IN  IF hits = {} THEN "No Data"
        ELSE LET currentWeek == ws[CHOOSE i \in hits : \A j \in hits : i <= j]
             IN  IF currentWeek.totalDays = 0 THEN "No Data"
                 ELSE IF currentWeek.officeDays >= 2 THEN "Compliant"
                 ELSE IF currentWeek.officeDays
                             + remainingDays(getDay(now)) >= 2 THEN "At Risk"
                 ELSE "Non-Compliant"

\* Tuesday 16 and Wednesday 17 January 2024: two days of the current week
\* in every modelled time zone
CurrentWeekDays == {15, 16}

CurrentWeekRecords ==
    [date : {parseDate(D) : D \in CurrentWeekDays},
     location : Locations,
     totalHours : {6}]

\* Monday 15 to Sunday 21 January 2024
DaysOfCurrentWeek == 14 .. 20

\* the report is generated at 10:00 local time on any day of the week
InitStatus ==
    /\ tzOffset \in TimeZoneOffsets
    /\ \E D \in DaysOfCurrentWeek : today = D * 24 + 10 - tzOffset
    /\ empAttendance \in UNION {[1..n -> CurrentWeekRecords] : n \in 0..MaxRecords}
    /\ wpc = "groupByWeek"
    /\ weeklyRecords = <<>>
    /\ weeks = <<>>
    /\ currentWeekStatus = "none"
    /\ AccessIdle
    /\ CalendarIdle
    /\ ReportIdle
    /\ ProductivityIdle
    /\ CronIdle
    /\ BackendIdle

\* const currentWeekStatus = getCurrentWeekStatus(weeks, today)
GetCurrentWeekStatus ==
    /\ wpc = "done"
    /\ currentWeekStatus' = getCurrentWeekStatus(weeks, today)
    /\ wpc' = "returned"
    /\ UNCHANGED <<today, empAttendance, weeklyRecords, weeks, tzOffset>>
    /\ UNCHANGED nonWeeklyVars

NextStatus ==
    \/ GroupByWeek
    \/ CalculateWeeklyCompliance
    \/ GetCurrentWeekStatus

SpecStatus == InitStatus /\ [][NextStatus]_vars

\* the Monday-to-Friday days strictly after calendar day D in D's week
RemainingWorkdays(D) ==
    Cardinality({E \in D + 1 .. MondayOf(D) + 6 : DayOfWeek(E) \in 1..5})

\* C12: for a current week with at least one day with data (a day of any
\* location, Unknown included), getCurrentWeekStatus returns Compliant when
\* officeDays >= 2, otherwise At Risk exactly when officeDays plus the number
\* of Monday-to-Friday days strictly after today is at least 2, and
\* Non-Compliant otherwise, on every day of the week.
C12_CurrentWeekStatus ==
    wpc = "returned" =>
        \A i \in 1..Len(weeks) :
            (/\ weeks[i].weekStart = formatDate(getWeekStart(today))
             /\ Len(weeks[i].dailyBreakdown) > 0) =>
                currentWeekStatus =
                    IF weeks[i].officeDays >= 2 THEN "Compliant"
                    ELSE IF weeks[i].officeDays
                                + RemainingWorkdays(LocalDay(today)) >= 2
                        THEN "At Risk"
                    ELSE "Non-Compliant"

-----------------------------------------------------------------------------
(* Array.prototype.sort *)
(* A stable binary insertion sort, as the engine runs on short arrays.     *)
(* The comparator is named by `mode` (see compareFn) and is called as      *)
(* comparefn(pivot, element): a negative answer moves the pivot left.      *)

\* statusOrder of getQuebecComplianceReport's comparator
statusOrder(status) ==
    CASE status = "Non-Compliant" -> 0
      [] status = "At Risk"       -> 1
      [] status = "No Data"       -> 2
      [] status = "Compliant"     -> 3

\* the comparator of employeeRecords.sort
compareRecords(a, b) ==
    LET statusDiff == statusOrder(a.currentWeekStatus)
                          - statusOrder(b.currentWeekStatus)
    IN  IF statusDiff # 0 THEN statusDiff
        ELSE a.complianceRate - b.complianceRate

\* the collation order of the characters of the modelled emails
CollationOrder == <<" ", "a", "A", "b", "B", "c", "C", "d", "D", "e", "E",
                    "h", "H", "r", "R", "z", "Z">>
CollationRank(c) == CHOOSE k \in 1..Len(CollationOrder) : CollationOrder[k] = c

RECURSIVE localeCompare(_, _)
\* String.prototype.localeCompare, character by character
localeCompare(x, y) ==
    IF x = <<>> /\ y = <<>> THEN 0
    ELSE IF x = <<>> THEN -1
    ELSE IF y = <<>> THEN 1
    ELSE IF CollationRank(Head(x)) < CollationRank(Head(y)) THEN -1
    ELSE IF CollationRank(Head(x)) > CollationRank(Head(y)) THEN 1
    ELSE localeCompare(Tail(x), Tail(y))

\* the comparator of getDailySummaryData's result.sort: date descending,
\* then user name
compareDaily(a, b) ==
    IF b.date # a.date THEN (IF b.date < a.date THEN -1 ELSE 1)
    ELSE localeCompare(a.userName, b.userName)

\* the UTF-16 code unit order of the letters used: the order of < on strings
CodeUnitOrder == <<" ", "A", "B", "C", "D", "E", "H", "R", "Z",
                   "a", "b", "c", "d", "e", "h", "r", "z">>
CodeUnit(c) == CHOOSE k \in 1..Len(CodeUnitOrder) : CodeUnitOrder[k] = c

RECURSIVE StringLess(_, _)
\* x < y on strings
StringLess(x, y) ==
    IF y = <<>> THEN FALSE
    ELSE IF x = <<>> THEN TRUE
    ELSE IF CodeUnit(Head(x)) # CodeUnit(Head(y))
        THEN CodeUnit(Head(x)) < CodeUnit(Head(y))
    ELSE StringLess(Tail(x), Tail(y))

\* the switch (sortBy) of the comparator: the value compared, {} for null
SortValue(sortBy, row) ==
    CASE sortBy = "avgProductivityScore" -> row.avgProductivityScore
      [] sortBy = "totalProductiveHours" -> row.totalProductiveHours
      [] sortBy = "daysTracked"          -> {row.daysTracked}
      [] OTHER                           -> {row.displayName}

\* aVal < bVal
ValueLess(sortBy, aVal, bVal) ==
    IF sortBy \in {"avgProductivityScore", "totalProductiveHours", "daysTracked"}
        THEN aVal < bVal
        ELSE StringLess(aVal, bVal)

\* a comparator whose null tests follow sortOrder like the other tests
compareTeamNullsByOrder(sortBy, sortOrder, a, b) ==
    LET aVal == SortValue(sortBy, a)
        bVal == SortValue(sortBy, b)
    IN  IF aVal = {} THEN (IF sortOrder = "asc" THEN 1 ELSE -1)
        ELSE IF bVal = {} THEN (IF sortOrder = "asc" THEN -1 ELSE 1)
        ELSE LET x == CHOOSE v \in aVal : TRUE
                 y == CHOOSE v \in bVal : TRUE
             IN  IF ValueLess(sortBy, x, y)
                     THEN (IF sortOrder = "asc" THEN -1 ELSE 1)
                 ELSE IF ValueLess(sortBy, y, x)
                     THEN (IF sortOrder = "asc" THEN 1 ELSE -1)
                 ELSE 0

\* the comparator of getTeamProductivityData's data.sort
compareTeam(sortBy, sortOrder, a, b) ==
    LET aVal == SortValue(sortBy, a)
        bVal == SortValue(sortBy, b)
    IN  IF aVal = {} THEN 1
        ELSE IF bVal = {} THEN -1
        ELSE LET x == CHOOSE v \in aVal : TRUE
                 y == CHOOSE v \in bVal : TRUE
             IN  IF ValueLess(sortBy, x, y)
                     THEN (IF sortOrder = "asc" THEN -1 ELSE 1)
                 ELSE IF ValueLess(sortBy, y, x)
                     THEN (IF sortOrder = "asc" THEN 1 ELSE -1)
                 ELSE 0

\* the comparator passed to sort
compareFn(mode, a, b) ==
    CASE mode.kind = "records" -> compareRecords(a, b)
      [] mode.kind = "daily"   -> compareDaily(a, b)
      [] mode.kind = "team"    -> compareTeam(mode.sortBy, mode.sortOrder, a, b)

RECURSIVE BinarySearch(_, _, _, _, _)
\* the index in q[left+1 .. right] before which pivot is inserted
BinarySearch(mode, q, pivot, left, right) ==
    IF left >= right THEN left
    ELSE LET mid == left + ((right - left) \div 2)
         IN  IF compareFn(mode, pivot, q[mid + 1]) < 0
                 THEN BinarySearch(mode, q, pivot, left, mid)
                 ELSE BinarySearch(mode, q, pivot, mid + 1, right)

InsertAt(q, k, x) == SubSeq(q, 1, k) \o <<x>> \o SubSeq(q, k + 1, Len(q))

RECURSIVE SortFrom(_, _, _)
\* q[1..n-1] is sorted; insert q[n], q[n+1], ...
SortFrom(mode, q, n) ==
    IF n > Len(q) THEN q
    ELSE LET sorted == SubSeq(q, 1, n - 1)
             k      == BinarySearch(mode, sorted, q[n], 0, n - 1)
         IN  SortFrom(mode,
                      InsertAt(sorted, k, q[n]) \o SubSeq(q, n + 1, Len(q)),
                      n + 1)

Sort(mode, q) == SortFrom(mode, q, 2)

-----------------------------------------------------------------------------
(* getQuebecComplianceReport (quebec-compliance-actions.ts) *)

\* isQuebecEmployee: the location names a place in Quebec (the keyword
\* search is represented by the one Quebec location of the model)
isQuebecEmployee(emp) == emp.location = "Montreal"

\* filterEmail && filterEmail.trim()
HasFilterEmail == userEmail # <<>> /\ trim(userEmail) # <<>>

\* allEmployees.filter(emp => isQuebecEmployee(emp) && emp.workEmail
\*                            && emp.status?.toLowerCase() !== 'inactive')
SelectQuebecEmployees(all) ==
    SelectSeq(all, LAMBDA emp : /\ isQuebecEmployee(emp)
                                /\ emp.workEmail # NoEmail
                                /\ IsActive(emp))

\* if (allowedEmails && allowedEmails.length > 0) quebecEmployees = filter(...)
ApplyAccessFilter(emps, allowed) ==
    IF \E a \in allowed : Len(a) > 0
        THEN SelectSeq(emps, LAMBDA emp :
                 /\ emp.workEmail # NoEmail
                 /\ \E a \in allowed : toLowerCase(emp.workEmail) \in Range(a))
        ELSE emps

\* quebecEmployees.map(emp => emp.workEmail!).filter(Boolean)
quebecEmails(emps) ==
    LET withEmail == SelectSeq(emps, LAMBDA emp : emp.workEmail # NoEmail)
    IN  [k \in 1..Len(withEmail) |-> withEmail[k].workEmail]

\* quebecEmails.length > 0 ? quebecEmails : undefined
\* (undefined is the empty set, an array the set holding it)
EmailArgument(emps) ==
    IF Len(quebecEmails(emps)) > 0 THEN {quebecEmails(emps)} ELSE {}

\* fetchOfficeAttendanceData(startDate, endDate, emails?): the rows of the
\* date range, of the given emails (compared in lower case) when a
\* non-empty list is given and of everybody otherwise; a row carries the
\* email as the source stores it
fetchOfficeAttendanceData(table, startDate, endDate, emails) ==
    SelectSeq(table, LAMBDA row :
        /\ formatDate(startDate) <= formatDate(row.date)
        /\ formatDate(row.date) <= formatDate(endDate)
        /\ (\E e \in emails : Len(e) > 0) =>
               \E e \in emails : \E k \in 1..Len(e) :
                   toLowerCase(row.email) = toLowerCase(e[k]))

\* attendanceByEmployee.get(email) || [] : the records whose email is
\* exactly the key
AttendanceOf(data, email) == SelectSeq(data, LAMBDA record : record.email = email)

\* Math.round((x / y) * 100) for x >= 0 and y > 0
RoundPercent(x, y) == (200 * x + y) \div (2 * y)

\* one iteration of the loop over quebecEmployees
EmployeeComplianceRecord(emp, data, startDate, endDate, now) ==
    LET email        == toLowerCase(emp.workEmail)
        records      == AttendanceOf(data, email)
        ws           == calculateWeeklyCompliance(
                            groupByWeek(records, startDate, endDate))
        weeksWithData  == {i \in 1..Len(ws) : ws[i].totalDays > 0}
        compliantWeeks == Cardinality({i \in weeksWithData : ws[i].isCompliant})
    IN  [ email             |-> email,
          weeks             |-> ws,
          totalWeeks        |-> Cardinality(weeksWithData),
          compliantWeeks    |-> compliantWeeks,
          complianceRate    |-> IF Cardinality(weeksWithData) > 0
                                    THEN RoundPercent(compliantWeeks,
                                                      Cardinality(weeksWithData))
                                    ELSE 0,
          currentWeekStatus |-> getCurrentWeekStatus(ws, now) ]

CountStatus(recs, status) ==
    Cardinality({k \in 1..Len(recs) : recs[k].currentWeekStatus = status})

\* the returned QuebecComplianceReport
QuebecComplianceReport(emps, data, startDate, endDate, now, context) ==
    LET employeeRecords ==
            [k \in 1..Len(emps) |->
                EmployeeComplianceRecord(emps[k], data, startDate, endDate, now)]
    IN  [ summary |->
              [ totalQuebecEmployees    |-> Len(emps),
                employeesWithData       |->
                    Cardinality({k \in 1..Len(employeeRecords) :
                                    employeeRecords[k].totalWeeks > 0}),
                currentWeekCompliant    |-> CountStatus(employeeRecords, "Compliant"),
                currentWeekAtRisk       |-> CountStatus(employeeRecords, "At Risk"),
                currentWeekNonCompliant |->
                    CountStatus(employeeRecords, "Non-Compliant") ],
          employees     |-> Sort([kind |-> "records"], employeeRecords),
          accessContext |-> context ]

-----------------------------------------------------------------------------
(* One report request as a state machine.  The access resolution it awaits *)
(* is the machine above (pc); the directory it fetches afterwards is the   *)
(* same snapshot.                                                           *)

\* if (filterEmail && filterEmail.trim()) accessContext = await getAccessContextByEmail(...)
BeginScopedReport ==
    /\ rpc = "start"
    /\ HasFilterEmail
    /\ pc = "idle"
    /\ pc' = "fetchDirectory"
    /\ rpc' = "access"
    /\ UNCHANGED <<allEmployees, userEmail, currentUser, callStack, visited,
                   reports, accessContext, fetchFailed, steps>>
    /\ UNCHANGED <<allowedEmails, quebecEmployees, attendanceTable,
                   fetchEmails, attendanceData, report>>
    /\ UNCHANGED <<tzOffset, calendarVars, weeklyVars, reportKind,
                   productivityVars, cronVars, backendVars>>

\* no filterEmail: accessContext stays null and allowedEmails undefined
BeginUnscopedReport ==
    /\ rpc = "start"
    /\ ~HasFilterEmail
    /\ rpc' = IF reportKind = "compliance" THEN "directory" ELSE "productivity"
    /\ UNCHANGED <<allowedEmails, quebecEmployees, attendanceTable,
                   fetchEmails, attendanceData, report>>
    /\ UNCHANGED <<accessVars, tzOffset, calendarVars, weeklyVars, reportKind,
                   productivityVars, cronVars, backendVars>>

\* allowedEmails = accessContext.allowedEmails
AccessResolved ==
    /\ rpc = "access"
    /\ pc = "done"
    /\ allowedEmails' = {accessContext.allowedEmails}
    /\ rpc' = IF reportKind = "compliance" THEN "directory" ELSE "productivity"
    /\ UNCHANGED <<quebecEmployees, attendanceTable, fetchEmails,
                   attendanceData, report>>
    /\ UNCHANGED <<accessVars, tzOffset, calendarVars, weeklyVars, reportKind,
                   productivityVars, cronVars, backendVars>>

\* const allEmployees = await fetchEmployeeDirectory(); the two filters
FetchDirectory ==
    /\ rpc = "directory"
    /\ quebecEmployees' =
           ApplyAccessFilter(SelectQuebecEmployees(allEmployees), allowedEmails)
    /\ rpc' = "attendance"
    /\ UNCHANGED <<allowedEmails, attendanceTable, fetchEmails,
                   attendanceData, report>>
    /\ UNCHANGED <<accessVars, tzOffset, calendarVars, weeklyVars, reportKind,
                   productivityVars, cronVars, backendVars>>

\* fetchEmployeeDirectory throws: the report request rejects
DirectoryFetchThrows ==
    /\ rpc = "directory"
    /\ rpc' = "failed"
    /\ UNCHANGED <<allowedEmails, quebecEmployees, attendanceTable,
                   fetchEmails, attendanceData, report>>
    /\ UNCHANGED <<accessVars, tzOffset, calendarVars, weeklyVars, reportKind,
                   productivityVars, cronVars, backendVars>>

\* const attendanceData = await fetchOfficeAttendanceData(startDate, endDate,
\*     quebecEmails.length > 0 ? quebecEmails : undefined)
FetchAttendance ==
    /\ rpc = "attendance"
    /\ fetchEmails' = Append(fetchEmails, EmailArgument(quebecEmployees))
    /\ attendanceData' =
           fetchOfficeAttendanceData(attendanceTable, ReportStartDate,
                                     ReportEndDate, EmailArgument(quebecEmployees))
    /\ rpc' = "build"
    /\ UNCHANGED <<allowedEmails, quebecEmployees, attendanceTable, report>>
    /\ UNCHANGED <<accessVars, tzOffset, calendarVars, weeklyVars, reportKind,
                   productivityVars, cronVars, backendVars>>

\* the fetch is issued and throws: the report request rejects
AttendanceFetchThrows ==
    /\ rpc = "attendance"
    /\ fetchEmails' = Append(fetchEmails, EmailArgument(quebecEmployees))
    /\ rpc' = "failed"
    /\ UNCHANGED <<allowedEmails, quebecEmployees, attendanceTable,
                   attendanceData, report>>
    /\ UNCHANGED <<accessVars, tzOffset, calendarVars, weeklyVars, reportKind,
                   productivityVars, cronVars, backendVars>>

\* the loop over quebecEmployees, the sort and the return
BuildReport ==
    /\ rpc = "build"
    /\ report' = QuebecComplianceReport(quebecEmployees, attendanceData,
                                        ReportStartDate, ReportEndDate, today,
                                        accessContext)
    /\ rpc' = "done"
    /\ UNCHANGED <<allowedEmails, quebecEmployees, attendanceTable,
                   fetchEmails, attendanceData>>
    /\ UNCHANGED <<accessVars, tzOffset, calendarVars, weeklyVars, reportKind,
                   productivityVars, cronVars, backendVars>>

-----------------------------------------------------------------------------
(* Inputs of a report request *)

\* Thursday 18 January 2024, 10:00 local time
ReportTodayLocal == 17 * 24 + 10

\* An employee of a report directory differs from a plain one (active, in
\* Quebec, lowercase email) in at most one way; at most one employee does.
\* "sameEmail" gives the employee the first employee's email in upper case.
ReportDeviations ==
    {<<"none", 1>>} \cup
    ({"inactive", "noEmail", "upperEmail", "sameEmail", "notQuebec"}
         \X (1..NumEmployees))

ReportEmployee(i, sup, dev) ==
    [ id            |-> EmployeeIds[i],
      workEmail     |-> IF dev = <<"noEmail", i>> THEN NoEmail
                        ELSE IF dev = <<"upperEmail", i>> THEN <<UpperLetters[i]>>
                        ELSE IF dev = <<"sameEmail", i>> THEN <<UpperLetters[1]>>
                        ELSE <<Letters[i]>>,
      supervisorId  |-> sup[i],
      supervisorEId |-> Null,
      status        |-> IF dev = <<"inactive", i>> THEN "Inactive" ELSE "Active",
      location      |-> IF dev = <<"notQuebec", i>> THEN "Toronto" ELSE "Montreal" ]

\* nobody has a supervisor, or each employee reports to the one before
NoSupervisors == [i \in 1..NumEmployees |-> Null]
ChainOfCommand ==
    [i \in 1..NumEmployees |-> IF i = 1 THEN Null ELSE EmployeeIds[i - 1]]

ReportDirectories ==
    { [i \in 1..NumEmployees |-> ReportEmployee(i, sup, dev)] :
        sup \in {NoSupervisors, ChainOfCommand}, dev \in ReportDeviations }

PlainDirectory ==
    [i \in 1..NumEmployees |-> ReportEmployee(i, NoSupervisors, <<"none", 1>>)]

\* no requester, the first employee, an HR admin, a stranger
ReportRequesters == { <<>>, <<"a">>, <<"H", "r">>, <<"z", " ">> }

\* what one employee logged: days of the previous week (Tuesday 9 and
\* Wednesday 10 January) and of the current week (Tuesday 16, Wednesday 17)
AttendanceProfiles ==
    { <<>>,
      <<[day |-> 15, location |-> "Office"], [day |-> 16, location |-> "Office"]>>,
      <<[day |-> 15, location |-> "Office"]>>,
      <<[day |-> 15, location |-> "Remote"]>>,
      <<[day |-> 8, location |-> "Office"], [day |-> 9, location |-> "Office"]>>,
      <<[day |-> 8, location |-> "Remote"]>>,
      <<[day |-> 8, location |-> "Remote"],
        [day |-> 15, location |-> "Office"], [day |-> 16, location |-> "Office"]>>,
      <<[day |-> 8, location |-> "Unknown"],
        [day |-> 15, location |-> "Office"], [day |-> 16, location |-> "Office"]>> }

\* the rows of one employee, under the name the attendance source stores
RowsOf(name, profile) ==
    [k \in 1..Len(profile) |->
        [ email      |-> name,
          date       |-> parseDate(profile[k].day),
          location   |-> profile[k].location,
          totalHours |-> 6 ]]

RECURSIVE TableOf(_, _, _)
\* the rows of employees i, i+1, ...; the source stores the first
\* employee's email in upper case when firstUpper holds
TableOf(profiles, firstUpper, i) ==
    IF i > NumEmployees THEN <<>>
    ELSE RowsOf(IF i = 1 /\ firstUpper THEN <<UpperLetters[1]>> ELSE <<Letters[i]>>,
                profiles[i])
             \o TableOf(profiles, firstUpper, i + 1)

\* a report for nobody in particular over a plain directory, with every
\* combination of attendance profiles
InitRanking ==
    /\ tzOffset \in TimeZoneOffsets
    /\ today = ReportTodayLocal - tzOffset
    /\ allEmployees = PlainDirectory
    /\ userEmail = <<>>
    /\ reportKind = "compliance"
    /\ \E profiles \in [1..NumEmployees -> AttendanceProfiles],
          firstUpper \in BOOLEAN :
           attendanceTable = TableOf(profiles, firstUpper, 1)
    /\ rpc = "start"
    /\ allowedEmails = {}
    /\ quebecEmployees = <<>>
    /\ fetchEmails = <<>>
    /\ attendanceData = <<>>
    /\ report = NoReport
    /\ pc = "idle"
    /\ currentUser = NoEmployee
    /\ callStack = <<>>
    /\ visited = {}
    /\ reports = <<>>
    /\ accessContext = NoContext
    /\ fetchFailed = FALSE
    /\ steps = 0
    /\ CalendarIdle
    /\ ProductivityIdle
    /\ CronIdle
    /\ BackendIdle
    /\ empAttendance = <<>>
    /\ wpc = "idle"
    /\ weeklyRecords = <<>>
    /\ weeks = <<>>
    /\ currentWeekStatus = "none"

NextRanking ==
    \/ BeginUnscopedReport
    \/ FetchDirectory
    \/ DirectoryFetchThrows
    \/ FetchAttendance
    \/ AttendanceFetchThrows
    \/ BuildReport

SpecRanking == InitRanking /\ [][NextRanking]_vars

-----------------------------------------------------------------------------
(* getDailySummaryData (daily-summary-actions.ts) *)

\* startDate.setDate(startDate.getDate() - 30), from new Date()
DailyStartDate == setDate(today, getDate(today) - 30)

\* fetchProductivityData(startDate, endDate, emails?): the rows of the date
\* range; AND LOWER(user_name) IN the lowercased emails when emails is a
\* non-empty array
fetchProductivityData(table, startDate, endDate, emails) ==
    SelectSeq(table, LAMBDA row :
        /\ formatDate(startDate) <= formatDate(row.date)
        /\ formatDate(row.date) <= formatDate(endDate)
        /\ (\E e \in emails : Len(e) > 0) =>
               \E e \in emails : \E k \in 1..Len(e) :
                   toLowerCase(row.email) = toLowerCase(e[k]))

\* the rows of the result, before sorting
DailySummaryRows(rawData) ==
    [k \in 1..Len(rawData) |->
        [date |-> formatDate(rawData[k].date), userName |-> rawData[k].email]]

\* const rawData = await fetchProductivityData(startDate, endDate,
\*     allowedEmails); map, sort and return
FetchProductivity ==
    /\ rpc = "productivity"
    /\ fetchEmails' = Append(fetchEmails, allowedEmails)
    /\ attendanceData' =
           fetchProductivityData(attendanceTable, DailyStartDate, today,
                                 allowedEmails)
    /\ report' =
           [ data |-> Sort([kind |-> "daily"], DailySummaryRows(attendanceData')),
             accessContext |-> accessContext ]
    /\ rpc' = "done"
    /\ UNCHANGED <<allowedEmails, quebecEmployees, attendanceTable>>
    /\ UNCHANGED <<accessVars, tzOffset, calendarVars, weeklyVars, reportKind,
                   productivityVars, cronVars, backendVars>>

\* the fetch is issued and throws: the catch block throws
\* 'Failed to fetch daily summary data from ActivTrak'
ProductivityFetchThrows ==
    /\ rpc = "productivity"
    /\ fetchEmails' = Append(fetchEmails, allowedEmails)
    /\ rpc' = "failed"
    /\ UNCHANGED <<allowedEmails, quebecEmployees, attendanceTable,
                   attendanceData, report>>
    /\ UNCHANGED <<accessVars, tzOffset, calendarVars, weeklyVars, reportKind,
                   productivityVars, cronVars, backendVars>>

-----------------------------------------------------------------------------
(* Report requests of every kind of requester over every report directory *)

\* every employee logged one Office day this week
OneOfficeDayEach ==
    [i \in 1..NumEmployees |->
        <<[day |-> 15, location |-> "Office"]>>]

InitReport ==
    /\ tzOffset = 0
    /\ today = ReportTodayLocal - tzOffset
    /\ allEmployees \in ReportDirectories
    /\ userEmail \in ReportRequesters
    /\ reportKind \in {"compliance", "dailySummary"}
    /\ attendanceTable = TableOf(OneOfficeDayEach, FALSE, 1)
    /\ rpc = "start"
    /\ allowedEmails = {}
    /\ quebecEmployees = <<>>
    /\ fetchEmails = <<>>
    /\ attendanceData = <<>>
    /\ report = NoReport
    /\ pc = "idle"
    /\ currentUser = NoEmployee
    /\ callStack = <<>>
    /\ visited = {}
    /\ reports = <<>>
    /\ accessContext = NoContext
    /\ fetchFailed = FALSE
    /\ steps = 0
    /\ CalendarIdle
    /\ ProductivityIdle
    /\ CronIdle
    /\ BackendIdle
    /\ empAttendance = <<>>
    /\ wpc = "idle"
    /\ weeklyRecords = <<>>
    /\ weeks = <<>>
    /\ currentWeekStatus = "none"

NextReport ==
    \/ BeginScopedReport
    \/ BeginUnscopedReport
    \/ AdminAccess
    \/ UserNotFound
    \/ UserFound
    \/ FetchThrows
    \/ StartFindReports
    \/ FindReportsVisit
    \/ FindReportsSkip
    \/ FindReportsReturn
    \/ ReturnContext
    \/ AccessResolved
    \/ FetchDirectory
    \/ DirectoryFetchThrows
    \/ FetchAttendance
    \/ AttendanceFetchThrows
    \/ BuildReport
    \/ FetchProductivity
    \/ ProductivityFetchThrows

SpecReport == InitReport /\ [][NextReport]_vars

-----------------------------------------------------------------------------
(* Claims about the compliance report *)

\* most concerning first
ConcernOrder == <<"Non-Compliant", "At Risk", "No Data", "Compliant">>
ConcernRank(status) == CHOOSE k \in 1..Len(ConcernOrder) : ConcernOrder[k] = status

\* the whole-percent share of the data-bearing weeks (weeks with at least
\* one day with data, of any location) that are compliant; 0 without any
ShareOfCompliantWeeks(ws) ==
    LET bearing == {i \in 1..Len(ws) : Len(ws[i].dailyBreakdown) > 0}
        good    == {i \in bearing : ws[i].officeDays >= 2}
    IN  IF bearing = {} THEN 0
        ELSE CHOOSE p \in 0..100 :
                 /\ 2 * (100 * Cardinality(good) - p * Cardinality(bearing))
                        <= Cardinality(bearing)
                 /\ 2 * (p * Cardinality(bearing) - 100 * Cardinality(good))
                        < Cardinality(bearing)

\* C13: in every compliance report, for any two consecutive employee records
\* a, b the rank of a's current-week status is at most that of b's
\* (Non-Compliant < At Risk < No Data < Compliant) and on equal ranks
\* a.complianceRate <= b.complianceRate, where complianceRate is the
\* whole-percent share of the data-bearing weeks that are compliant (0 when
\* there are none).
C13_ReportOrder ==
    rpc = "done" =>
        \A k \in 1..Len(report.employees) - 1 :
            LET a == report.employees[k]
                b == report.employees[k + 1]
            IN  /\ ConcernRank(a.currentWeekStatus) <= ConcernRank(b.currentWeekStatus)
                /\ ConcernRank(a.currentWeekStatus) = ConcernRank(b.currentWeekStatus)
                       => ShareOfCompliantWeeks(a.weeks)
                              <= ShareOfCompliantWeeks(b.weeks)

\* the dates an employee record of the report counts a day for
CountedDates(rec) ==
    UNION {{rec.weeks[i].dailyBreakdown[k].date :
                k \in 1..Len(rec.weeks[i].dailyBreakdown)} : i \in 1..Len(rec.weeks)}

\* C15: an attendance record is attributed to the employee whose email
\* equals the record's email after lowercasing both: the day of every
\* fetched record is counted in the weekly compliance of each employee of
\* the report whose email differs from the record's at most by letter case.
C15_RecordsMatchedInLowerCase ==
    rpc = "done" =>
        \A k \in 1..Len(report.employees) :
            \A n \in 1..Len(attendanceData) :
                toLowerCase(attendanceData[n].email)
                        = toLowerCase(report.employees[k].email)
                    => formatDate(attendanceData[n].date)
                           \in CountedDates(report.employees[k])

\* the directory entries in the report's scope: in Quebec, active, with an
\* email
InScope == {i \in 1..Len(allEmployees) :
               /\ isQuebecEmployee(allEmployees[i])
               /\ IsActive(allEmployees[i])
               /\ allEmployees[i].workEmail # NoEmail}

\* C14: for an HR-admin requester and any directory snapshot, the summary's
\* employee count is the number of in-scope active employees with an email,
\* the employees list has that length, and no lowercased email appears in
\* more than one EmployeeComplianceRecord (also when two directory entries
\* have emails that differ only by letter case).
C14_AdminReportCountsEachOnce ==
    (rpc = "done" /\ reportKind = "compliance" /\ isHRAdmin /\ ~fetchFailed) =>
        /\ report.summary.totalQuebecEmployees = Cardinality(InScope)
        /\ Len(report.employees) = Cardinality(InScope)
        /\ \A j, k \in 1..Len(report.employees) :
               j # k => toLowerCase(report.employees[j].email)
                            # toLowerCase(report.employees[k].email)

\* C18: when a report is requested with a requester email, the
\* attendance/productivity fetch is issued only after access resolution has
\* completed, and the email filter passed to it is a non-empty subset of the
\* resolved allowedEmails: the fetch is never issued without an email filter
\* for a scoped requester, also when none of the allowed employees is in the
\* report's scope.
C18_FetchScopedAfterAccess ==
    (HasFilterEmail /\ Len(fetchEmails) > 0) =>
        /\ pc = "done"
        /\ \A k \in 1..Len(fetchEmails) :
               /\ fetchEmails[k] # {}
               /\ \A emails \in fetchEmails[k] :
                      /\ Len(emails) > 0
                      /\ \A i \in 1..Len(emails) :
                             toLowerCase(emails[i])
                                 \in Range(accessContext.allowedEmails)

\* C19: a report request is all-or-nothing with respect to upstream
\* failures: when a directory or attendance/productivity fetch made during
\* the request has failed, the request ends in an explicit failure, and no
\* report is returned that was computed after a failed fetch (for instance
\* with an access context degraded to the requester alone).
C19_NoReportAfterFailedFetch == rpc = "done" => ~fetchFailed

-----------------------------------------------------------------------------
(* Productivity actions: getTeamProductivityData and                       *)
(* getEmployeeProductivityData.                                            *)
(* A nullable number is the empty set (null) or the set holding the        *)
(* number. Hours and average scores that the code rounds to two decimals   *)
(* are kept in hundredths.                                                 *)

RECURSIVE SumSeq(_)
\* array.reduce((sum, x) => sum + x, 0)
SumSeq(q) == IF q = <<>> THEN 0 ELSE Head(q) + SumSeq(Tail(q))

\* productivity_score: total_time > 0
\*     ? Math.round((productive_time / total_time) * 100) : null
productivity_score(productive_time, total_time) ==
    IF total_time > 0 THEN {RoundPercent(productive_time, total_time)} ELSE {}

\* the <<productive_time, total_time>> of a day, in seconds
DayTimes == { <<0, 0>>, <<0, 3600>>, <<1800, 3600>>, <<2880, 3600>>,
              <<3600, 3600>> }

\* the rows of hr_productivity_daily, as the sync stores them
ProductivityDaily ==
    { [ PRODUCTIVE_TIME    |-> t[1],
        TOTAL_TIME         |-> t[2],
        PRODUCTIVITY_SCORE |-> productivity_score(t[1], t[2]) ] : t \in DayTimes }

\* p.PRODUCTIVITY_SCORE || 0
ScoreOrZero(score) == IF score = {} THEN 0 ELSE CHOOSE v \in score : TRUE

\* getEmployeeProductivityData's summary of the productivity rows
\* avgScore, as the fraction <<numerator, denominator>>; {} for null
avgScore(rows) ==
    IF Len(rows) > 0
        THEN {<<SumSeq([k \in 1..Len(rows) |->
                           ScoreOrZero(rows[k].PRODUCTIVITY_SCORE)]),
                Len(rows)>>}
        ELSE {}

\* avgScore ? Math.round(avgScore * 100) / 100 : null, in hundredths
RoundedAverage(avg) ==
    IF avg = {} THEN {}
    ELSE LET f == CHOOSE v \in avg : TRUE
         IN  IF f[1] = 0 THEN {} ELSE {RoundPercent(f[1], f[2])}

\* Math.round((seconds / 3600) * 100) / 100, in hundredths
RoundedHours(seconds) == RoundPercent(seconds, 3600)

EmployeeSummary(rows) ==
    [ avgProductivityScore |-> RoundedAverage(avgScore(rows)),
      totalProductiveHours |->
          RoundedHours(SumSeq([k \in 1..Len(rows) |-> rows[k].PRODUCTIVE_TIME])),
      totalHours           |->
          RoundedHours(SumSeq([k \in 1..Len(rows) |-> rows[k].TOTAL_TIME])),
      daysTracked          |-> Len(rows) ]

\* ---- getTeamProductivityData ----

\* the display names of the active employees 1, 2, 3, in the order of the
\* query (ORDER BY e.display_name), and their departments (<<>> for null)
TeamNames == << <<"A", "b">>, <<"B">>, <<"c">> >>
TeamDepartments == << <<"E">>, <<"e">>, <<>> >>

\* what the grouped query yields for one employee: no daily row at all
\* (LEFT JOIN: every aggregate is NULL), only days without a score, or
\* scored days
SummaryProfiles ==
    { [ AVG_PRODUCTIVITY_SCORE |-> {},   TOTAL_PRODUCTIVE_HOURS |-> {},
        TOTAL_HOURS |-> {},    DAYS_TRACKED |-> 0 ],
      [ AVG_PRODUCTIVITY_SCORE |-> {},   TOTAL_PRODUCTIVE_HOURS |-> {0},
        TOTAL_HOURS |-> {0},   DAYS_TRACKED |-> 1 ],
      [ AVG_PRODUCTIVITY_SCORE |-> {50}, TOTAL_PRODUCTIVE_HOURS |-> {4},
        TOTAL_HOURS |-> {8},   DAYS_TRACKED |-> 1 ],
      [ AVG_PRODUCTIVITY_SCORE |-> {80}, TOTAL_PRODUCTIVE_HOURS |-> {16},
        TOTAL_HOURS |-> {20},  DAYS_TRACKED |-> 2 ] }

SummaryRow(i, profile) ==
    [ EMPLOYEE_ID            |-> i,
      DISPLAY_NAME           |-> TeamNames[i],
      DEPARTMENT             |-> TeamDepartments[i],
      AVG_PRODUCTIVITY_SCORE |-> profile.AVG_PRODUCTIVITY_SCORE,
      TOTAL_PRODUCTIVE_HOURS |-> profile.TOTAL_PRODUCTIVE_HOURS,
      TOTAL_HOURS            |-> profile.TOTAL_HOURS,
      DAYS_TRACKED           |-> profile.DAYS_TRACKED ]

\* getProductivitySummaryByDateRange(employeeIds, startDate, endDate)
getProductivitySummaryByDateRange(table, employeeIds) ==
    SelectSeq(table, LAMBDA row : row.EMPLOYEE_ID \in employeeIds)

\* summaryData.map(row => ({...}))
TeamRow(row) ==
    [ employeeId           |-> row.EMPLOYEE_ID,
      displayName          |-> row.DISPLAY_NAME,
      email                |-> <<>>,
      department           |-> row.DEPARTMENT,
      avgProductivityScore |-> row.AVG_PRODUCTIVITY_SCORE,
      totalProductiveHours |-> row.TOTAL_PRODUCTIVE_HOURS,
      totalHours           |-> row.TOTAL_HOURS,
      daysTracked          |-> row.DAYS_TRACKED ]

\* String.prototype.includes
includes(s, sub) ==
    \E k \in 0..(Len(s) - Len(sub)) : SubSeq(s, k + 1, k + Len(sub)) = sub

\* if (department) data = data.filter(...)
FilterDepartment(rows, department) ==
    IF department # <<>>
        THEN SelectSeq(rows, LAMBDA d :
                 /\ d.department # <<>>
                 /\ toLowerCase(d.department) = toLowerCase(department))
        ELSE rows

\* if (search) data = data.filter(...)
FilterSearch(rows, search) ==
    IF search # <<>>
        THEN SelectSeq(rows, LAMBDA d :
                 \/ includes(toLowerCase(d.displayName), toLowerCase(search))
                 \/ includes(toLowerCase(d.email), toLowerCase(search)))
        ELSE rows

\* const offset = (page - 1) * pageSize; data.slice(offset, offset + pageSize)
Paginate(rows, page, pageSize) ==
    LET total  == Len(rows)
        offset == (page - 1) * pageSize
        last   == IF offset + pageSize < total THEN offset + pageSize ELSE total
    IN  [ data     |-> SubSeq(rows, offset + 1, last),
          total    |-> total,
          page     |-> page,
          pageSize |-> pageSize,
          hasMore  |-> offset + pageSize < total ]

\* { data: [], total: 0, page, pageSize, hasMore: false }
EmptyPage(page, pageSize) ==
    [data |-> <<>>, total |-> 0, page |-> page, pageSize |-> pageSize,
     hasMore |-> FALSE]

\* employeeIds: every active employee for an HR admin, else
\* getAccessibleTeamEmployeeIds()
TeamEmployeeIds ==
    IF \E c \in managerContext : c.canAccessAllEmployees
        THEN {summaryTable[k].EMPLOYEE_ID : k \in 1..Len(summaryTable)}
        ELSE accessibleEmployeeIds

\* if (!context) return the empty page
TeamNoContext ==
    /\ productivityCall = "team"
    /\ ppc = "start"
    /\ managerContext = {}
    /\ returned' = {EmptyPage(requestParams.page, requestParams.pageSize)}
    /\ ppc' = "done"
    /\ UNCHANGED <<productivityCall, managerContext, accessibleEmployeeIds,
                   summaryTable, requestParams, sortedData, hasAccess,
                   employeeById, productivityRows>>
    /\ UNCHANGED <<accessVars, tzOffset, calendarVars, weeklyVars, reportVars,
                   cronVars, backendVars>>

\* if (employeeIds.length === 0 && !context.canAccessAllEmployees) return the
\* empty page
TeamNoEmployees ==
    /\ productivityCall = "team"
    /\ ppc = "start"
    /\ managerContext # {}
    /\ TeamEmployeeIds = {}
    /\ \A c \in managerContext : ~c.canAccessAllEmployees
    /\ returned' = {EmptyPage(requestParams.page, requestParams.pageSize)}
    /\ ppc' = "done"
    /\ UNCHANGED <<productivityCall, managerContext, accessibleEmployeeIds,
                   summaryTable, requestParams, sortedData, hasAccess,
                   employeeById, productivityRows>>
    /\ UNCHANGED <<accessVars, tzOffset, calendarVars, weeklyVars, reportVars,
                   cronVars, backendVars>>

\* the query, the map, the filters, the sort and the page
TeamData ==
    /\ productivityCall = "team"
    /\ ppc = "start"
    /\ managerContext # {}
    /\ ~(TeamEmployeeIds = {} /\ \A c \in managerContext : ~c.canAccessAllEmployees)
    /\ LET summaryData == getProductivitySummaryByDateRange(summaryTable,
                                                            TeamEmployeeIds)
           mapped   == [k \in 1..Len(summaryData) |-> TeamRow(summaryData[k])]
           filtered == FilterSearch(
                           FilterDepartment(mapped, requestParams.department),
                           requestParams.search)
       IN  sortedData' = Sort([kind      |-> "team",
                               sortBy    |-> requestParams.sortBy,
                               sortOrder |-> requestParams.sortOrder],
                              filtered)
    /\ returned' = {Paginate(sortedData', requestParams.page,
                             requestParams.pageSize)}
    /\ ppc' = "sorted"
    /\ UNCHANGED <<productivityCall, managerContext, accessibleEmployeeIds,
                   summaryTable, requestParams, hasAccess, employeeById,
                   productivityRows>>
    /\ UNCHANGED <<accessVars, tzOffset, calendarVars, weeklyVars, reportVars,
                   cronVars, backendVars>>

\* ---- getEmployeeProductivityData ----

\* if (!hasAccess) return null
EmployeeNoAccess ==
    /\ productivityCall = "employee"
    /\ ppc = "start"
    /\ ~hasAccess
    /\ returned' = {}
    /\ ppc' = "done"
    /\ UNCHANGED <<productivityCall, managerContext, accessibleEmployeeIds,
                   summaryTable, requestParams, sortedData, hasAccess,
                   employeeById, productivityRows>>
    /\ UNCHANGED <<accessVars, tzOffset, calendarVars, weeklyVars, reportVars,
                   cronVars, backendVars>>

\* if (!employee) return null
EmployeeNotFound ==
    /\ productivityCall = "employee"
    /\ ppc = "start"
    /\ hasAccess
    /\ employeeById = {}
    /\ returned' = {}
    /\ ppc' = "done"
    /\ UNCHANGED <<productivityCall, managerContext, accessibleEmployeeIds,
                   summaryTable, requestParams, sortedData, hasAccess,
                   employeeById, productivityRows>>
    /\ UNCHANGED <<accessVars, tzOffset, calendarVars, weeklyVars, reportVars,
                   cronVars, backendVars>>

\* the productivity rows and their summary
EmployeeData ==
    /\ productivityCall = "employee"
    /\ ppc = "start"
    /\ hasAccess
    /\ employeeById # {}
    /\ returned' = {[ employee     |-> CHOOSE e \in employeeById : TRUE,
                      productivity |-> productivityRows,
                      summary      |-> EmployeeSummary(productivityRows) ]}
    /\ ppc' = "summarized"
    /\ UNCHANGED <<productivityCall, managerContext, accessibleEmployeeIds,
                   summaryTable, requestParams, sortedData, hasAccess,
                   employeeById, productivityRows>>
    /\ UNCHANGED <<accessVars, tzOffset, calendarVars, weeklyVars, reportVars,
                   cronVars, backendVars>>

\* ---- the requests ----

\* the requests of getTeamProductivityData
TeamRequests ==
    [ page       : {1},
      pageSize   : {2, 20},
      department : {<<>>, <<"E">>},
      search     : {<<>>, <<"B">>},
      sortBy     : {"displayName", "avgProductivityScore",
                    "totalProductiveHours", "daysTracked"},
      sortOrder  : {"asc", "desc"} ]

\* null, an HR admin's context, a manager's context
ManagerContexts == { {}, {[canAccessAllEmployees |-> TRUE]},
                     {[canAccessAllEmployees |-> FALSE]} }

InitTeam ==
    /\ productivityCall = "team"
    /\ managerContext \in ManagerContexts
    /\ accessibleEmployeeIds \in
           IF \E c \in managerContext : ~c.canAccessAllEmployees
               THEN SUBSET (1..Len(TeamNames))
               ELSE {{}}
    /\ \E profiles \in [1..Len(TeamNames) -> SummaryProfiles] :
           summaryTable = [i \in 1..Len(TeamNames) |-> SummaryRow(i, profiles[i])]
    /\ requestParams \in TeamRequests
    /\ hasAccess = FALSE
    /\ employeeById = {}
    /\ productivityRows = <<>>

InitEmployee ==
    /\ productivityCall = "employee"
    /\ managerContext = {}
    /\ accessibleEmployeeIds = {}
    /\ summaryTable = <<>>
    /\ requestParams = [employeeId |-> 1]
    /\ hasAccess \in BOOLEAN
    /\ employeeById \in {{}, {[EMPLOYEE_ID |-> 1]}}
    /\ productivityRows \in
           UNION {[1..n -> ProductivityDaily] : n \in 0..MaxRecords}

InitProductivity ==
    /\ tzOffset = 0
    /\ AccessIdle
    /\ CalendarIdle
    /\ WeeklyIdle
    /\ ReportIdle
    /\ CronIdle
    /\ BackendIdle
    /\ InitTeam \/ InitEmployee
    /\ ppc = "start"
    /\ sortedData = <<>>
    /\ returned = {}

NextProductivity ==
    \/ TeamNoContext
    \/ TeamNoEmployees
    \/ TeamData
    \/ EmployeeNoAccess
    \/ EmployeeNotFound
    \/ EmployeeData

SpecProductivity == InitProductivity /\ [][NextProductivity]_vars

-----------------------------------------------------------------------------
(* Claims about the productivity actions *)

\* the scores of the days that have one
ScoredDays(rows) == SelectSeq(rows, LAMBDA p : p.PRODUCTIVITY_SCORE # {})

\* the mean of the scores of the days that have one, in hundredths; null
\* when no day has a score
MeanOfScoredDays(rows) ==
    LET scored == ScoredDays(rows)
    IN  IF Len(scored) = 0 THEN {}
        ELSE {RoundPercent(SumSeq([k \in 1..Len(scored) |->
                               ScoreOrZero(scored[k].PRODUCTIVITY_SCORE)]),
                           Len(scored))}

\* C16: an employee's avgProductivityScore is the mean of the per-day scores
\* over only the days that have a score (totalSeconds > 0): a day with no
\* score is left out of numerator and denominator, so one unscored day plus
\* one 80% day average 80, not 40.
C16_AverageOverScoredDays ==
    (productivityCall = "employee" /\ ppc = "summarized") =>
        \A r \in returned :
            r.summary.avgProductivityScore = MeanOfScoredDays(productivityRows)

\* C17: when getTeamProductivityData sorts by avgProductivityScore, every row
\* with a null score comes after every row with a numeric score, for both
\* sort orders and every input order, and the numeric rows are in ascending
\* (resp. descending) score order.
C17_NullScoresLast ==
    (productivityCall = "team" /\ ppc = "sorted"
        /\ requestParams.sortBy = "avgProductivityScore") =>
        \A i, j \in 1..Len(sortedData) :
            i < j =>
                LET a == sortedData[i].avgProductivityScore
                    b == sortedData[j].avgProductivityScore
                IN  /\ ~(a = {} /\ b # {})
                    /\ (a # {} /\ b # {}) =>
                           \A x \in a : \A y \in b :
                               IF requestParams.sortOrder = "asc"
                                   THEN x <= y ELSE x >= y

\* a descending sort by score has returned a list with numeric and null
\* scores whose first input row had a null score
C17_Witness ==
    /\ productivityCall = "team"
    /\ ppc = "sorted"
    /\ requestParams.sortBy = "avgProductivityScore"
    /\ requestParams.sortOrder = "desc"
    /\ Len(sortedData) = Len(TeamNames)
    /\ summaryTable[1].AVG_PRODUCTIVITY_SCORE = {}
    /\ summaryTable[2].AVG_PRODUCTIVITY_SCORE = {50}
    /\ summaryTable[3].AVG_PRODUCTIVITY_SCORE = {80}
    /\ sortedData[1].avgProductivityScore = {80}
    /\ sortedData[3].avgProductivityScore = {}

-----------------------------------------------------------------------------
(* The route /api/cron/sync *)

Bearer == <<"B", "e", "a", "r", "e", "r", " ">>

\* String.prototype.replace(pattern, replacement) with a string pattern: the
\* first occurrence is replaced
replace(s, pattern, replacement) ==
    LET at == {k \in 0..(Len(s) - Len(pattern)) :
                  SubSeq(s, k + 1, k + Len(pattern)) = pattern}
    IN  IF at = {} THEN s
        ELSE LET k == CHOOSE i \in at : \A j \in at : i <= j
             IN  SubSeq(s, 1, k) \o replacement
                     \o SubSeq(s, k + Len(pattern) + 1, Len(s))

\* isAuthorized(request)
isAuthorized(req) ==
    /\ req.authorization # {}
    /\ \A authHeader \in req.authorization :
           /\ authHeader # <<>>
           /\ CRON_SECRET = {replace(authHeader, Bearer, <<>>)}

\* CRON_SECRET && ... : undefined and '' are falsy
SecretIsSet == CRON_SECRET # {} /\ CRON_SECRET # {<<>>}

\* searchParams.get('type') || 'full'
syncType(req) == IF req.type = "" THEN "full" ELSE req.type

Digits == <<"0", "1", "4", "7">>
DigitValue(c) ==
    CASE c = "0" -> 0 [] c = "1" -> 1 [] c = "4" -> 4 [] c = "7" -> 7

RECURSIVE ParseDigits(_, _)
ParseDigits(str, acc) ==
    IF str # <<>> /\ Head(str) \in Range(Digits)
        THEN ParseDigits(Tail(str), acc * 10 + DigitValue(Head(str)))
        ELSE acc

\* parseInt(str, 10): the leading digits; {} for NaN
parseInt(str) ==
    IF str # <<>> /\ Head(str) \in Range(Digits) THEN {ParseDigits(str, 0)}
    ELSE {}

\* parseInt(searchParams.get('days') || '7', 10)
days(req) == parseInt(IF req.days = <<>> THEN <<"7">> ELSE req.days)

\* the switch (syncType): the operation called and its argument
SyncOperation(req) ==
    CASE syncType(req) = "employees"    -> [operation |-> "syncEmployees"]
      [] syncType(req) = "productivity" ->
             [operation |-> "syncProductivityData", days |-> days(req)]
      [] OTHER -> [operation |-> "runFullSync", days |-> days(req)]

\* if (CRON_SECRET && !isAuthorized(request)) return 401
PostUnauthorized ==
    /\ request.method = "POST"
    /\ cpc = "start"
    /\ SecretIsSet /\ ~isAuthorized(request)
    /\ response' = {[status |-> 401, error |-> "Unauthorized"]}
    /\ cpc' = "responded"
    /\ UNCHANGED <<CRON_SECRET, request, syncsStarted>>
    /\ UNCHANGED <<accessVars, tzOffset, calendarVars, weeklyVars, reportVars,
                   productivityVars, backendVars>>

\* the sync operation of the switch is called
PostStartSync ==
    /\ request.method = "POST"
    /\ cpc = "start"
    /\ ~(SecretIsSet /\ ~isAuthorized(request))
    /\ syncsStarted' = Append(syncsStarted, SyncOperation(request))
    /\ cpc' = "sync"
    /\ UNCHANGED <<CRON_SECRET, request, response>>
    /\ UNCHANGED <<accessVars, tzOffset, calendarVars, weeklyVars, reportVars,
                   productivityVars, backendVars>>

\* the operation resolves: { success: true, syncType, result }
SyncReturns ==
    /\ cpc = "sync"
    /\ response' = {[status |-> 200, success |-> TRUE,
                     syncType |-> syncType(request)]}
    /\ cpc' = "responded"
    /\ UNCHANGED <<CRON_SECRET, request, syncsStarted>>
    /\ UNCHANGED <<accessVars, tzOffset, calendarVars, weeklyVars, reportVars,
                   productivityVars, backendVars>>

\* the operation rejects: status 500
SyncThrows ==
    /\ cpc = "sync"
    /\ response' = {[status |-> 500, success |-> FALSE]}
    /\ cpc' = "responded"
    /\ UNCHANGED <<CRON_SECRET, request, syncsStarted>>
    /\ UNCHANGED <<accessVars, tzOffset, calendarVars, weeklyVars, reportVars,
                   productivityVars, backendVars>>

\* GET: the health check, without authentication
Get ==
    /\ request.method = "GET"
    /\ cpc = "start"
    /\ response' = {[status |-> 200, message |-> "ok"]}
    /\ cpc' = "responded"
    /\ UNCHANGED <<CRON_SECRET, request, syncsStarted>>
    /\ UNCHANGED <<accessVars, tzOffset, calendarVars, weeklyVars, reportVars,
                   productivityVars, backendVars>>

\* the configurations of CRON_SECRET: unset, empty, a secret
Secrets == { {}, {<<>>}, {<<"s">>} }

\* the authorization headers: none, empty, the expected one, the bare
\* secret, another token, the secret before the prefix, the prefix alone
AuthorizationHeaders ==
    { {}, {<<>>}, {Bearer \o <<"s">>}, {<<"s">>}, {Bearer \o <<"x">>},
      {<<"s">> \o Bearer}, {Bearer} }

Requests ==
    [ method        : {"POST", "GET"},
      authorization : AuthorizationHeaders,
      type          : {"", "employees", "productivity", "full", "weekly"},
      days          : {<<>>, <<"1", "4">>, <<"x">>} ]

InitCron ==
    /\ tzOffset = 0
    /\ AccessIdle
    /\ CalendarIdle
    /\ WeeklyIdle
    /\ ReportIdle
    /\ ProductivityIdle
    /\ BackendIdle
    /\ CRON_SECRET \in Secrets
    /\ request \in Requests
    /\ cpc = "start"
    /\ syncsStarted = <<>>
    /\ response = {}

NextCron ==
    \/ PostUnauthorized
    \/ PostStartSync
    \/ SyncReturns
    \/ SyncThrows
    \/ Get

SpecCron == InitCron /\ [][NextCron]_vars

\* the one header the route accepts: 'Bearer <CRON_SECRET>'
ExpectedAuthorization == {Bearer \o secret : secret \in CRON_SECRET}

\* C20: POST /api/cron/sync starts a sync operation only for a request whose
\* Authorization header is 'Bearer <CRON_SECRET>'; every other request
\* (missing or wrong token, in every configuration of CRON_SECRET) is
\* answered 401 and starts no sync.
C20_SyncOnlyWithBearerSecret ==
    (request.method = "POST"
        /\ ~(request.authorization # {}
             /\ request.authorization \subseteq ExpectedAuthorization)) =>
        /\ syncsStarted = <<>>
        /\ \A r \in response : r.status = 401

-----------------------------------------------------------------------------
(* Further claims about the weekly compliance *)

\* the ways to keep, for every date of the records, one record of that date
\* with the greatest hours
DedupChoices(records) ==
    {pick \in [DatesOf(records) -> 1..Len(records)] :
        \A d \in DatesOf(records) :
            /\ formatDate(records[pick[d]].date) = d
            /\ \A m \in 1..Len(records) :
                   formatDate(records[m].date) = d
                       => records[m].totalHours <= records[pick[d]].totalHours}

\* C22: for each week, officeDays is the number of distinct dates whose
\* deduplicated record is Office, remoteDays the number whose deduplicated
\* record is Remote, and isCompliant is true exactly when officeDays >= 2.
C22_DayCountsAndCompliance ==
    wpc = "done" =>
        \A i \in 1..Len(weeks) :
            LET week    == weeks[i]
                records == weeklyRecords[week.weekStart]
            IN  /\ \E pick \in DedupChoices(records) :
                       /\ week.officeDays = Cardinality(
                              {d \in DatesOf(records) :
                                  records[pick[d]].location = "Office"})
                       /\ week.remoteDays = Cardinality(
                              {d \in DatesOf(records) :
                                  records[pick[d]].location = "Remote"})
                /\ week.isCompliant <=> (week.officeDays >= 2)

\* a week with one Office day and one Remote day: officeDays = 1,
\* remoteDays = 1, not compliant
C22_Witness ==
    /\ wpc = "done"
    /\ \E i \in 1..Len(weeks) :
           LET records == weeklyRecords[weeks[i].weekStart] IN
           /\ Len(records) = 2
           /\ records[1].date # records[2].date
           /\ records[1].location = "Office"
           /\ records[2].location = "Remote"
           /\ weeks[i].officeDays = 1
           /\ weeks[i].remoteDays = 1
           /\ ~weeks[i].isCompliant

-----------------------------------------------------------------------------
(* Manager access: getManagerAccessContext and canAccessEmployeeData, and   *)
(* getEmployeeProductivityData behind them.                                 *)

\* getEmployeeByEmail: LOWER(email) = LOWER(:email); {} for null
getEmployeeByEmail(db, email) ==
    LET found == {k \in 1..Len(db.hr_employees) :
                     toLowerCase(db.hr_employees[k].EMAIL) = toLowerCase(email)}
    IN  IF found = {} THEN {}
        ELSE {db.hr_employees[CHOOSE k \in found : \A j \in found : k <= j]}

\* getEmployeeById; {} for null
getEmployeeById(db, employeeId) ==
    {db.hr_employees[k] : k \in {j \in 1..Len(db.hr_employees) :
                                    db.hr_employees[j].EMPLOYEE_ID = employeeId}}

\* isHRAdmin(email) of the queries: an active row of hr_admin_users
IsActiveHRAdmin(db, email) ==
    \E row \in db.hr_admin_users :
        toLowerCase(row.USER_EMAIL) = toLowerCase(email) /\ row.IS_ACTIVE = 1

\* getDirectReports(supervisorId), as ids
getDirectReportIds(db, supervisorId) ==
    {db.hr_employees[k].EMPLOYEE_ID : k \in
        {j \in 1..Len(db.hr_employees) :
            /\ db.hr_employees[j].SUPERVISOR_ID = {supervisorId}
            /\ db.hr_employees[j].IS_ACTIVE = 1}}

\* isManager(employeeId)
IsManagerOf(db, employeeId) == getDirectReportIds(db, employeeId) # {}

\* getManagerReportIds(managerId)
getManagerReportIds(db, managerId) ==
    {h[2] : h \in {g \in db.hr_manager_hierarchy : g[1] = managerId}}

\* a context that is an HR admin's only when the user is recorded as one
DatabaseLessContext(userId, email) ==
    [ userId |-> userId, email |-> email, employeeId |-> {},
      isManager |-> FALSE, isHRAdmin |-> FALSE, hrRole |-> "null",
      directReportIds |-> {}, allReportIds |-> {},
      canAccessAllEmployees |-> FALSE ]

\* getManagerAccessContext(): {} for null, else the set holding the context
getManagerAccessContext ==
    IF ~hasClerkKeys
        THEN {[ userId |-> "dev-user", email |-> <<"a", "d", "m", "i", "n">>,
                employeeId |-> {}, isManager |-> TRUE, isHRAdmin |-> TRUE,
                hrRole |-> "hr_admin", directReportIds |-> {},
                allReportIds |-> {}, canAccessAllEmployees |-> TRUE ]}
    ELSE IF ~clerkSession.imported THEN {}
    ELSE IF clerkSession.userId = "null" THEN {}
    ELSE IF clerkSession.email = <<>> THEN {}
    ELSE IF ~dbQueries
        THEN {[ userId |-> clerkSession.userId, email |-> clerkSession.email,
                employeeId |-> {}, isManager |-> FALSE, isHRAdmin |-> TRUE,
                hrRole |-> "hr_admin", directReportIds |-> {},
                allReportIds |-> {}, canAccessAllEmployees |-> TRUE ]}
    ELSE LET email    == clerkSession.email
             found    == getEmployeeByEmail(database, email)
             hrAdmin  == IsActiveHRAdmin(database, email)
             ids      == {e.EMPLOYEE_ID : e \in found}
             managing == \E id \in ids : IsManagerOf(database, id)
         IN  {[ userId          |-> clerkSession.userId,
                email           |-> email,
                employeeId      |-> ids,
                isManager       |-> managing,
                isHRAdmin       |-> hrAdmin,
                hrRole          |-> IF hrAdmin THEN "hr_admin" ELSE "null",
                directReportIds |->
                    IF managing
                        THEN UNION {getDirectReportIds(database, id) : id \in ids}
                        ELSE {},
                allReportIds    |->
                    IF managing
                        THEN UNION {getManagerReportIds(database, id) : id \in ids}
                        ELSE {},
                canAccessAllEmployees |-> hrAdmin ]}

\* canAccessEmployeeData(targetEmployeeId), given the context
canAccessEmployeeData(ctx, targetEmployeeId) ==
    /\ ctx # {}
    /\ \A c \in ctx :
           \/ c.canAccessAllEmployees
           \/ c.employeeId = {targetEmployeeId}
           \/ targetEmployeeId \in c.allReportIds

\* const context = await getManagerAccessContext() inside
\* canAccessEmployeeData
GetManagerAccessContext ==
    /\ productivityCall = "employee"
    /\ ppc = "context"
    /\ managerContext' = getManagerAccessContext
    /\ ppc' = "access"
    /\ UNCHANGED <<productivityCall, accessibleEmployeeIds, summaryTable,
                   requestParams, sortedData, hasAccess, employeeById,
                   productivityRows, returned>>
    /\ UNCHANGED <<accessVars, tzOffset, calendarVars, weeklyVars, reportVars,
                   cronVars, backendVars>>

\* const hasAccess = await canAccessEmployeeData(employeeId)
CanAccessEmployeeData ==
    /\ productivityCall = "employee"
    /\ ppc = "access"
    /\ hasAccess' = canAccessEmployeeData(managerContext, requestParams.employeeId)
    /\ ppc' = "start"
    /\ UNCHANGED <<productivityCall, managerContext, accessibleEmployeeIds,
                   summaryTable, requestParams, sortedData, employeeById,
                   productivityRows, returned>>
    /\ UNCHANGED <<accessVars, tzOffset, calendarVars, weeklyVars, reportVars,
                   cronVars, backendVars>>

\* hr_employees: a manages b, b manages c
StoredEmployees ==
    << [EMPLOYEE_ID |-> 1, EMAIL |-> <<"a">>, SUPERVISOR_ID |-> {},
        IS_ACTIVE |-> 1],
       [EMPLOYEE_ID |-> 2, EMAIL |-> <<"b">>, SUPERVISOR_ID |-> {1},
        IS_ACTIVE |-> 1],
       [EMPLOYEE_ID |-> 3, EMAIL |-> <<"c">>, SUPERVISOR_ID |-> {2},
        IS_ACTIVE |-> 1] >>

AdminTables ==
    { {}, {[USER_EMAIL |-> <<"h">>, IS_ACTIVE |-> 1]},
      {[USER_EMAIL |-> <<"h">>, IS_ACTIVE |-> 0]},
      {[USER_EMAIL |-> <<"a">>, IS_ACTIVE |-> 1]} }

\* hr_manager_hierarchy: every manager with each of its direct and indirect
\* reports, or not yet filled
Hierarchies == { {<<1, 2>>, <<1, 3>>, <<2, 3>>}, {} }

\* import fails, nobody signed in, a user without an email, employees a, b
\* (written B), c, and h who is no employee
ClerkSessions ==
    { [imported |-> FALSE, userId |-> "null", email |-> <<>>],
      [imported |-> TRUE,  userId |-> "null", email |-> <<>>],
      [imported |-> TRUE,  userId |-> "u", email |-> <<>>] }
    \cup { [imported |-> TRUE, userId |-> "u", email |-> e] :
               e \in { <<"a">>, <<"B">>, <<"c">>, <<"H">> } }

InitEmployeeAccess ==
    /\ tzOffset = 0
    /\ AccessIdle
    /\ CalendarIdle
    /\ WeeklyIdle
    /\ ReportIdle
    /\ CronIdle
    /\ SyncIdle
    /\ OracleIdle
    /\ hasClerkKeys \in BOOLEAN
    /\ clerkSession \in ClerkSessions
    /\ dbQueries \in BOOLEAN
    /\ \E admins \in AdminTables : \E hierarchy \in Hierarchies :
           database = [ hr_employees         |-> StoredEmployees,
                        hr_admin_users       |-> admins,
                        hr_manager_hierarchy |-> hierarchy ]
    /\ productivityCall = "employee"
    /\ ppc = "context"
    /\ managerContext = {}
    /\ accessibleEmployeeIds = {}
    /\ summaryTable = <<>>
    /\ requestParams \in [employeeId : 1..(Len(StoredEmployees) + 1)]
    /\ sortedData = <<>>
    /\ hasAccess = FALSE
    /\ employeeById = getEmployeeById(database, requestParams.employeeId)
    /\ productivityRows \in
           {<<>>, <<[PRODUCTIVE_TIME |-> 2880, TOTAL_TIME |-> 3600,
                     PRODUCTIVITY_SCORE |-> productivity_score(2880, 3600)]>>}
    /\ returned = {}

NextEmployeeAccess ==
    \/ GetManagerAccessContext
    \/ CanAccessEmployeeData
    \/ EmployeeNoAccess
    \/ EmployeeNotFound
    \/ EmployeeData

SpecEmployeeAccess == InitEmployeeAccess /\ [][NextEmployeeAccess]_vars

\* somebody is signed in with an email
SignedIn ==
    /\ hasClerkKeys
    /\ clerkSession.imported
    /\ clerkSession.userId # "null"
    /\ clerkSession.email # <<>>

\* C29: getManagerAccessContext returns canAccessAllEmployees = true (and
\* isHRAdmin = true) only for a user recorded as an active HR admin; an
\* authenticated user who is not an HR admin never receives
\* canAccessAllEmployees = true, whether or not the database module is
\* available and whether or not the authentication provider is configured.
C29_AllAccessOnlyForRecordedAdmins ==
    ppc \in {"access", "start", "done", "summarized"} =>
        \A c \in managerContext :
            (c.canAccessAllEmployees \/ c.isHRAdmin) =>
                /\ SignedIn
                /\ IsActiveHRAdmin(database, clerkSession.email)

\* the signed-in user may read the target's productivity: an HR admin, the
\* employee, or a manager whose report list holds the employee
MayReadTarget ==
    /\ SignedIn
    /\ \/ IsActiveHRAdmin(database, clerkSession.email)
       \/ \E e \in getEmployeeByEmail(database, clerkSession.email) :
              \/ e.EMPLOYEE_ID = requestParams.employeeId
              \/ /\ IsManagerOf(database, e.EMPLOYEE_ID)
                 /\ requestParams.employeeId
                        \in getManagerReportIds(database, e.EMPLOYEE_ID)

\* C21: getEmployeeProductivityData returns an employee's productivity data
\* only if the current user is an HR admin, is that employee, or is a manager
\* whose transitive report list contains that employee; for every other
\* (user, target) pair it returns null and reads no productivity rows.
C21_ProductivityOnlyForAuthorized ==
    (productivityCall = "employee" /\ ~MayReadTarget) =>
        /\ ppc # "summarized"
        /\ returned = {}

-----------------------------------------------------------------------------
(* The sync actions: syncEmployees, syncProductivityData and runFullSync    *)
(* (quebec-compliance-actions.ts) over the tables of queries.ts.  A table   *)
(* of hr_employees is the sequence of its rows in insertion order, so that  *)
(* hr_employee_seq.NEXTVAL is its length plus one; hr_sync_status likewise. *)

\* the sync functions an action runs, with the two of runFullSync exchanged
StepsOfProductivityFirst(call) ==
    CASE call = "syncEmployees"        -> <<"employees">>
      [] call = "syncProductivityData" -> <<"productivity">>
      [] OTHER                         -> <<"productivity", "employees">>

\* the sync functions an action runs, each awaited before the next is called
StepsOf(call) ==
    CASE call = "syncEmployees"        -> <<"employees">>
      [] call = "syncProductivityData" -> <<"productivity">>
      [] OTHER                         -> <<"employees", "productivity">>

\* supervisorMap.get(emp.id)?.supervisorEmail of buildSupervisorMap: the
\* work email of the employee whose id is emp.supervisorId || emp.supervisorEId
\* (emailById.set: the last such employee wins); NoEmail for none
SupervisorEmailOf(all, emp) ==
    LET supId == IF emp.supervisorId # Null THEN emp.supervisorId
                 ELSE emp.supervisorEId
        found == {k \in 1..Len(all) :
                     all[k].id = supId /\ all[k].workEmail # NoEmail}
    IN  IF supId = Null \/ found = {} THEN NoEmail
        ELSE all[CHOOSE k \in found : \A j \in found : j <= k].workEmail

\* transformEmployee(emp) with the supervisor email of the map, as the
\* Partial<Employee> handed to upsertEmployee; the directory request does not
\* ask for supervisorEmail, so emp.supervisorEmail || null is null
transformEmployee(all, emp) ==
    [ BAMBOOHR_ID      |-> emp.id,
      EMAIL            |-> emp.workEmail,
      SUPERVISOR_EMAIL |-> SupervisorEmailOf(all, emp),
      IS_ACTIVE        |-> IF IsActive(emp) THEN 1 ELSE 0 ]

\* upsertEmployee: MERGE INTO hr_employees ON (bamboohr_id); the update sets
\* email, supervisor_email, is_active and leaves supervisor_id as it is, the
\* insert takes the next employee_id and a null supervisor_id
upsertEmployee(table, e) ==
    IF \E k \in 1..Len(table) : table[k].BAMBOOHR_ID = e.BAMBOOHR_ID
    THEN [k \in 1..Len(table) |->
             IF table[k].BAMBOOHR_ID = e.BAMBOOHR_ID
             THEN [table[k] EXCEPT !.EMAIL = e.EMAIL,
                                   !.SUPERVISOR_EMAIL = e.SUPERVISOR_EMAIL,
                                   !.IS_ACTIVE = e.IS_ACTIVE]
             ELSE table[k]]
    ELSE Append(table, [ EMPLOYEE_ID      |-> Len(table) + 1,
                         BAMBOOHR_ID      |-> e.BAMBOOHR_ID,
                         EMAIL            |-> e.EMAIL,
                         SUPERVISOR_EMAIL |-> e.SUPERVISOR_EMAIL,
                         SUPERVISOR_ID    |-> {},
                         IS_ACTIVE        |-> e.IS_ACTIVE ])

\* the subquery of updateEmployeeSupervisors for one row: the employee_ids
\* of the rows whose email equals the row's supervisor_email, in lower case
SupervisorIdsOf(table, row) ==
    {table[k].EMPLOYEE_ID : k \in
        {j \in 1..Len(table) :
            toLowerCase(table[j].EMAIL) = toLowerCase(row.SUPERVISOR_EMAIL)}}

\* the rows updateEmployeeSupervisors updates:
\* WHERE e.supervisor_email IS NOT NULL AND e.supervisor_id IS NULL
NeedsSupervisor(row) == row.SUPERVISOR_EMAIL # NoEmail /\ row.SUPERVISOR_ID = {}

\* updateEmployeeSupervisors(); a subquery without a row gives NULL
updateEmployeeSupervisors(table) ==
    [k \in 1..Len(table) |->
        IF NeedsSupervisor(table[k])
        THEN [table[k] EXCEPT !.SUPERVISOR_ID = SupervisorIdsOf(table, table[k])]
        ELSE table[k]]

\* createSyncStatus: INSERT INTO hr_sync_status (..., status) VALUES (..., 'running')
InsertSyncStatus(table, type) ==
    Append(table, [ID |-> Len(table) + 1, SYNC_TYPE |-> type, STATUS |-> "running"])

\* updateSyncStatus(syncId, status, stats): UPDATE ... WHERE id = :syncId
updateSyncStatus(table, id, status) ==
    [k \in 1..Len(table) |->
        IF table[k].ID = id THEN [table[k] EXCEPT !.STATUS = status] ELSE table[k]]

\* getActiveEmployees(): WHERE is_active = 1
getActiveEmployees(table) == SelectSeq(table, LAMBDA row : row.IS_ACTIVE = 1)

\* const endDate = new Date(); startDate.setDate(startDate.getDate() - daysBack),
\* with the default daysBack of 7
SyncEndDate == parseDate(10)
SyncStartDate == SyncEndDate - 7 * 24

\* const emails = employees.map((e) => e.EMAIL)
EmployeeEmails(employees) == [k \in 1..Len(employees) |-> employees[k].EMAIL]

\* emailToEmployee.get(email) of new Map(employees.map(e => [e.EMAIL.toLowerCase(), e])):
\* {} for undefined, else {employee}; of equal keys the last entry stays
emailToEmployee(employees, email) ==
    LET found == {k \in 1..Len(employees) : toLowerCase(employees[k].EMAIL) = email}
    IN  IF found = {} THEN {}
        ELSE {employees[CHOOSE k \in found : \A j \in found : j <= k]}

\* what the body of syncProductivityData's loop does with a record, short of
\* the upsert's own failure
RecordOutcome(employees, record) ==
    IF toLowerCase(record.email) = <<>> THEN "noEmail"
    ELSE IF emailToEmployee(employees, toLowerCase(record.email)) = {}
         THEN "noEmployee"
         ELSE "upsert"

\* the counters after a record for which no employee is found is passed over
\* without failed++
TallySkippingUnmatched(c, outcome) ==
    CASE outcome = "noEmail"    -> [c EXCEPT !.processed = @ + 1, !.failed = @ + 1]
      [] outcome = "noEmployee" -> [c EXCEPT !.processed = @ + 1]
      [] outcome = "threw"      -> [c EXCEPT !.processed = @ + 1, !.failed = @ + 1]
      [] OTHER                  -> [c EXCEPT !.processed = @ + 1, !.created = @ + 1]

\* the counters of syncProductivityData after one record: processed++ first,
\* then failed++ (no email, no employee, the upsert threw) or created++
Tally(c, outcome) ==
    CASE outcome = "noEmail"    -> [c EXCEPT !.processed = @ + 1, !.failed = @ + 1]
      [] outcome = "noEmployee" -> [c EXCEPT !.processed = @ + 1, !.failed = @ + 1]
      [] outcome = "threw"      -> [c EXCEPT !.processed = @ + 1, !.failed = @ + 1]
      [] OTHER                  -> [c EXCEPT !.processed = @ + 1, !.created = @ + 1]

\* upsertProductivityData: MERGE ON (employee_id, activity_date)
upsertProductivityData(table, employeeId, activityDate) ==
    table \cup {[EMPLOYEE_ID |-> employeeId, ACTIVITY_DATE |-> activityDate]}

\* the SyncResult of the try block and that of the catch block
Succeeded(id, processed, c) ==
    [ success |-> TRUE, syncId |-> id, recordsProcessed |-> processed,
      recordsCreated |-> c.created, recordsUpdated |-> c.updated,
      recordsFailed |-> c.failed ]

Failed(id) ==
    [ success |-> FALSE, syncId |-> id, recordsProcessed |-> 0,
      recordsCreated |-> 0, recordsUpdated |-> 0, recordsFailed |-> 0 ]

\* what the sync actions leave alone
syncFrame == <<accessVars, tzOffset, calendarVars, weeklyVars, reportVars,
               productivityVars, hasClerkKeys, clerkSession, dbQueries,
               oracleVars, bambooDirectory, activityRows, syncCall>>

\* the sync function running returns result: the action calls its next
\* function (runFullSync after syncEmployees) or returns itself
StepReturns(result) ==
    LET fns == StepsOf(syncCall)
        i == CHOOSE k \in 1..Len(fns) : fns[k] = syncStep
        ended == Append(syncLog, [step |-> syncStep, event |-> "returned"])
    IN  /\ syncResults' = [syncResults EXCEPT ![syncStep] = {result}]
        /\ IF i < Len(fns)
           THEN /\ syncStep' = fns[i + 1]
                /\ spc' = "create"
                /\ syncId' = {}
                /\ fetchedRecords' = <<>>
                /\ cursor' = 0
                /\ counts' = NoCounts
                /\ syncLog' = Append(ended, [step |-> fns[i + 1],
                                             event |-> "called"])
                /\ UNCHANGED <<syncOutcome, syncsRun>>
           ELSE /\ spc' = "done"
                /\ syncOutcome' = "returned"
                /\ syncsRun' = syncsRun + 1
                /\ syncLog' = ended
                /\ UNCHANGED <<syncStep, syncId, fetchedRecords, cursor, counts>>

\* the sync function running rejects, and with it the action
StepThrows ==
    /\ spc' = "done"
    /\ syncOutcome' = "threw"
    /\ syncsRun' = syncsRun + 1
    /\ syncLog' = Append(syncLog, [step |-> syncStep, event |-> "threw"])
    /\ UNCHANGED <<syncStep, syncId, fetchedRecords, cursor, counts, syncResults>>

\* syncId = await createSyncStatus(...): the row is inserted and the call
\* resolves to result[0]?.ID || 0, the row's id or 0
CreateSyncStatus ==
    /\ spc = "create"
    /\ LET table == InsertSyncStatus(database.hr_sync_status, syncStep) IN
       /\ database' = [database EXCEPT !.hr_sync_status = table]
       /\ \E id \in {table[Len(table)].ID, 0} : syncId' = {id}
    /\ spc' = "fetch"
    /\ UNCHANGED <<syncStep, fetchedRecords, cursor, counts, syncResults,
                   syncOutcome, syncLog, syncsRun>>
    /\ UNCHANGED <<syncFrame, cronVars>>

\* createSyncStatus rejects; no row is inserted
CreateSyncStatusThrows ==
    /\ spc = "create"
    /\ spc' = "caught"
    /\ UNCHANGED <<database, syncStep, syncId, fetchedRecords, cursor, counts,
                   syncResults, syncOutcome, syncLog, syncsRun>>
    /\ UNCHANGED <<syncFrame, cronVars>>

\* bambooEmployees = await fetchActiveEmployees(); buildSupervisorMap()
FetchEmployees ==
    /\ spc = "fetch" /\ syncStep = "employees"
    /\ fetchedRecords' = fetchActiveEmployees(bambooDirectory)
    /\ cursor' = 0
    /\ counts' = NoCounts
    /\ spc' = "loop"
    /\ UNCHANGED <<database, syncStep, syncId, syncResults, syncOutcome,
                   syncLog, syncsRun>>
    /\ UNCHANGED <<syncFrame, cronVars>>

\* employees = await getActiveEmployees(); productivityData = await
\* fetchProductivityData(startDate, endDate, emails)
FetchProductivityRecords ==
    /\ spc = "fetch" /\ syncStep = "productivity"
    /\ fetchedRecords' =
           fetchProductivityData(activityRows, SyncStartDate, SyncEndDate,
               {EmployeeEmails(getActiveEmployees(database.hr_employees))})
    /\ cursor' = 0
    /\ counts' = NoCounts
    /\ spc' = "loop"
    /\ UNCHANGED <<database, syncStep, syncId, syncResults, syncOutcome,
                   syncLog, syncsRun>>
    /\ UNCHANGED <<syncFrame, cronVars>>

\* one of the fetches rejects (BambooHR, Oracle or BigQuery)
SyncFetchThrows ==
    /\ spc = "fetch"
    /\ spc' = "caught"
    /\ UNCHANGED <<database, syncStep, syncId, fetchedRecords, cursor, counts,
                   syncResults, syncOutcome, syncLog, syncsRun>>
    /\ UNCHANGED <<syncFrame, cronVars>>

\* one pass of syncEmployees' loop: the MERGE reports one row affected,
\* whether it updated or inserted, so affected > 0 and updated++
UpsertEmployee ==
    /\ spc = "loop" /\ syncStep = "employees"
    /\ cursor < Len(fetchedRecords)
    /\ LET emp == fetchedRecords[cursor + 1] IN
           database' = [database EXCEPT !.hr_employees =
                           upsertEmployee(@, transformEmployee(bambooDirectory, emp))]
    /\ counts' = [counts EXCEPT !.updated = @ + 1]
    /\ cursor' = cursor + 1
    /\ UNCHANGED <<syncStep, spc, syncId, fetchedRecords, syncResults,
                   syncOutcome, syncLog, syncsRun>>
    /\ UNCHANGED <<syncFrame, cronVars>>

\* one pass of syncEmployees' loop in which upsertEmployee throws: failed++
UpsertEmployeeThrows ==
    /\ spc = "loop" /\ syncStep = "employees"
    /\ cursor < Len(fetchedRecords)
    /\ counts' = [counts EXCEPT !.failed = @ + 1]
    /\ cursor' = cursor + 1
    /\ UNCHANGED <<database, syncStep, spc, syncId, fetchedRecords, syncResults,
                   syncOutcome, syncLog, syncsRun>>
    /\ UNCHANGED <<syncFrame, cronVars>>

\* await updateEmployeeSupervisors(), after the loop; a subquery with more
\* than one row makes the statement fail
UpdateEmployeeSupervisors ==
    /\ spc = "loop" /\ syncStep = "employees"
    /\ cursor = Len(fetchedRecords)
    /\ \A k \in 1..Len(database.hr_employees) :
           NeedsSupervisor(database.hr_employees[k]) =>
               Cardinality(SupervisorIdsOf(database.hr_employees,
                                           database.hr_employees[k])) <= 1
    /\ database' = [database EXCEPT !.hr_employees = updateEmployeeSupervisors(@)]
    /\ spc' = "complete"
    /\ UNCHANGED <<syncStep, syncId, fetchedRecords, cursor, counts, syncResults,
                   syncOutcome, syncLog, syncsRun>>
    /\ UNCHANGED <<syncFrame, cronVars>>

\* updateEmployeeSupervisors rejects
UpdateEmployeeSupervisorsThrows ==
    /\ spc = "loop" /\ syncStep = "employees"
    /\ cursor = Len(fetchedRecords)
    /\ spc' = "caught"
    /\ UNCHANGED <<database, syncStep, syncId, fetchedRecords, cursor, counts,
                   syncResults, syncOutcome, syncLog, syncsRun>>
    /\ UNCHANGED <<syncFrame, cronVars>>

\* one pass of syncProductivityData's loop: a record without email or
\* without employee is counted as failed, any other is upserted
ProcessRecord ==
    /\ spc = "loop" /\ syncStep = "productivity"
    /\ cursor < Len(fetchedRecords)
    /\ LET record == fetchedRecords[cursor + 1]
           employees == getActiveEmployees(database.hr_employees)
           outcome == RecordOutcome(employees, record)
       IN  /\ counts' = Tally(counts, outcome)
           /\ database' =
                  IF outcome = "upsert"
                  THEN [database EXCEPT !.hr_productivity_daily =
                           upsertProductivityData(@,
                               (CHOOSE e \in emailToEmployee(employees,
                                   toLowerCase(record.email)) : TRUE).EMPLOYEE_ID,
                               record.date)]
                  ELSE database
    /\ cursor' = cursor + 1
    /\ UNCHANGED <<syncStep, spc, syncId, fetchedRecords, syncResults,
                   syncOutcome, syncLog, syncsRun>>
    /\ UNCHANGED <<syncFrame, cronVars>>

\* one pass of syncProductivityData's loop in which upsertProductivityData
\* throws: failed++
UpsertProductivityThrows ==
    /\ spc = "loop" /\ syncStep = "productivity"
    /\ cursor < Len(fetchedRecords)
    /\ RecordOutcome(getActiveEmployees(database.hr_employees),
                     fetchedRecords[cursor + 1]) = "upsert"
    /\ counts' = Tally(counts, "threw")
    /\ cursor' = cursor + 1
    /\ UNCHANGED <<database, syncStep, spc, syncId, fetchedRecords, syncResults,
                   syncOutcome, syncLog, syncsRun>>
    /\ UNCHANGED <<syncFrame, cronVars>>

\* the loops are over and, in syncEmployees, the supervisors updated
AtCompletion ==
    \/ spc = "complete"
    \/ spc = "loop" /\ syncStep = "productivity" /\ cursor = Len(fetchedRecords)

\* await updateSyncStatus(syncId, 'completed', {...}); return { success: true, ... };
\* recordsProcessed is bambooEmployees.length resp. processed
Complete ==
    /\ AtCompletion
    /\ LET id == CHOOSE n \in syncId : TRUE IN
           database' = [database EXCEPT !.hr_sync_status =
                           updateSyncStatus(@, id, "completed")]
    /\ StepReturns(Succeeded(syncId,
                             IF syncStep = "employees" THEN Len(fetchedRecords)
                             ELSE counts.processed,
                             counts))
    /\ UNCHANGED <<syncFrame, cronVars>>

\* updateSyncStatus(syncId, 'completed', ...) rejects
CompleteThrows ==
    /\ AtCompletion
    /\ spc' = "caught"
    /\ UNCHANGED <<database, syncStep, syncId, fetchedRecords, cursor, counts,
                   syncResults, syncOutcome, syncLog, syncsRun>>
    /\ UNCHANGED <<syncFrame, cronVars>>

\* if (syncId): neither undefined nor 0
Truthy(id) == id # {} /\ id # {0}

\* the catch block: if (syncId) await updateSyncStatus(syncId, 'failed', ...);
\* return { success: false, ... }
Catch ==
    /\ spc = "caught"
    /\ database' =
           IF Truthy(syncId)
           THEN [database EXCEPT !.hr_sync_status =
                    updateSyncStatus(@, CHOOSE n \in syncId : TRUE, "failed")]
           ELSE database
    /\ StepReturns(Failed(syncId))
    /\ UNCHANGED <<syncFrame, cronVars>>

\* the catch block's updateSyncStatus rejects: the sync function rejects
CatchThrows ==
    /\ spc = "caught"
    /\ Truthy(syncId)
    /\ StepThrows
    /\ UNCHANGED database
    /\ UNCHANGED <<syncFrame, cronVars>>

\* an employee of the directory
DirectoryEmployee(i, supId, status) ==
    [ id            |-> EmployeeIds[i],
      workEmail     |-> <<Letters[i]>>,
      supervisorId  |-> supId,
      supervisorEId |-> Null,
      status        |-> status ]

\* the directory over time: e3 under e2 under e1; e3 moved under e1; e2
\* without supervisor; e3 inactive; e3 gone; nobody
SyncDirectories ==
    { << DirectoryEmployee(1, Null, "Active"), DirectoryEmployee(2, "e1", "Active"),
         DirectoryEmployee(3, "e2", "Active") >>,
      << DirectoryEmployee(1, Null, "Active"), DirectoryEmployee(2, "e1", "Active"),
         DirectoryEmployee(3, "e1", "Active") >>,
      << DirectoryEmployee(1, Null, "Active"), DirectoryEmployee(2, Null, "Active"),
         DirectoryEmployee(3, "e2", "Active") >>,
      << DirectoryEmployee(1, Null, "Active"), DirectoryEmployee(2, "e1", "Active"),
         DirectoryEmployee(3, "e2", "Inactive") >>,
      << DirectoryEmployee(1, Null, "Active"), DirectoryEmployee(2, "e1", "Active") >>,
      << >> }

\* the validated rows (user_name copied to email): none; two of known
\* employees; one with an empty user_name, one of a stranger, one of a known
\* employee
ActivityRowChoices ==
    { << >>,
      << [email |-> <<"A">>, date |-> parseDate(9)],
         [email |-> <<"b">>, date |-> parseDate(9)] >>,
      << [email |-> <<>>, date |-> parseDate(9)],
         [email |-> <<"z">>, date |-> parseDate(9)],
         [email |-> <<"a">>, date |-> parseDate(8)] >> }

\* the table after the employees emps of directory all were synced into it
RECURSIVE UpsertAll(_, _, _)
UpsertAll(table, all, emps) ==
    IF emps = <<>> THEN table
    ELSE UpsertAll(upsertEmployee(table, transformEmployee(all, Head(emps))),
                   all, Tail(emps))

SyncedEmployees(all) ==
    updateEmployeeSupervisors(UpsertAll(<<>>, all, fetchActiveEmployees(all)))

\* the action is called
SyncCalled(call) ==
    /\ syncCall = call
    /\ syncStep = StepsOf(call)[1]
    /\ spc = "create"
    /\ syncId = {}
    /\ fetchedRecords = <<>>
    /\ cursor = 0
    /\ counts = NoCounts
    /\ syncResults = NoResults
    /\ syncOutcome = "none"
    /\ syncLog = <<[step |-> StepsOf(call)[1], event |-> "called"]>>
    /\ syncsRun = 0

\* one call of a sync action; the employees table is empty or holds an
\* earlier sync of the directory
InitSync ==
    /\ tzOffset = 0
    /\ AccessIdle
    /\ CalendarIdle
    /\ WeeklyIdle
    /\ ReportIdle
    /\ ProductivityIdle
    /\ CronIdle
    /\ OracleIdle
    /\ hasClerkKeys = FALSE
    /\ clerkSession = [userId |-> "none"]
    /\ dbQueries = TRUE
    /\ bambooDirectory \in SyncDirectories
    /\ activityRows \in ActivityRowChoices
    /\ \E stored \in {<<>>, SyncedEmployees(bambooDirectory)} :
           database = [ hr_employees          |-> stored,
                        hr_sync_status        |-> <<>>,
                        hr_productivity_daily |-> {} ]
    /\ \E call \in {"syncEmployees", "syncProductivityData", "runFullSync"} :
           SyncCalled(call)

NextSync ==
    \/ CreateSyncStatus
    \/ CreateSyncStatusThrows
    \/ FetchEmployees
    \/ FetchProductivityRecords
    \/ SyncFetchThrows
    \/ UpsertEmployee
    \/ UpsertEmployeeThrows
    \/ UpdateEmployeeSupervisors
    \/ UpdateEmployeeSupervisorsThrows
    \/ ProcessRecord
    \/ UpsertProductivityThrows
    \/ Complete
    \/ CompleteThrows
    \/ Catch
    \/ CatchThrows

SpecSync == InitSync /\ [][NextSync]_vars

-----------------------------------------------------------------------------
(* Claims about the sync actions *)

\* C23: a record that fails (no email, no employee, a throwing upsert) never
\* ends the loop of syncProductivityData or syncEmployees: while records
\* remain the function stays in its loop, and the result of a completed sync
\* has recordsProcessed = recordsCreated + recordsUpdated + recordsFailed =
\* the number of fetched records.
C23_FailedRecordsAreCounted ==
    [][ /\ (spc = "loop" /\ cursor < Len(fetchedRecords)) =>
               (spc' = "loop" /\ cursor' = cursor + 1)
        /\ \A step \in {"employees", "productivity"} :
               (syncResults[step] = {} /\ syncResults'[step] # {}) =>
                   \A r \in syncResults'[step] :
                       r.success =>
                           /\ r.recordsProcessed =
                                  r.recordsCreated + r.recordsUpdated
                                      + r.recordsFailed
                           /\ r.recordsProcessed = Len(fetchedRecords) ]_vars

\* a productivity sync over three records, none of which could be stored
\* (no active employee is known), has completed: 3 processed, 3 failed
C23_Witness ==
    /\ syncCall = "syncProductivityData"
    /\ syncOutcome = "returned"
    /\ Len(fetchedRecords) = 3
    /\ \E k \in 1..3 : fetchedRecords[k].email = <<>>
    /\ \E r \in syncResults.productivity :
           /\ r.success
           /\ r.recordsProcessed = 3
           /\ r.recordsFailed = 3
           /\ r.recordsCreated = 0

\* C24: in runFullSync, syncProductivityData is called only after
\* syncEmployees has returned, and the object runFullSync returns carries
\* the results of both.
C24_EmployeesBeforeProductivity ==
    syncCall = "runFullSync" =>
        /\ \A i \in 1..Len(syncLog) :
               syncLog[i] = [step |-> "productivity", event |-> "called"] =>
                   \E j \in 1..(i - 1) :
                       syncLog[j] = [step |-> "employees", event |-> "returned"]
        /\ syncOutcome = "returned" =>
               syncResults.employees # {} /\ syncResults.productivity # {}

\* runFullSync has returned a failed employee sync and a completed
\* productivity sync
C24_Witness ==
    /\ syncCall = "runFullSync"
    /\ syncOutcome = "returned"
    /\ \E r \in syncResults.employees : ~r.success
    /\ \E r \in syncResults.productivity : r.success
    /\ syncLog[Len(syncLog)] = [step |-> "productivity", event |-> "returned"]

\* C26: once the sync action has returned or thrown, no row of
\* hr_sync_status is left 'running'.
C26_NoStatusLeftRunning ==
    syncOutcome # "none" =>
        \A k \in 1..Len(database.hr_sync_status) :
            database.hr_sync_status[k].STATUS \in {"completed", "failed"}

-----------------------------------------------------------------------------
(* Employee syncs one after the other, the directory changing in between *)

\* the syncs of one behaviour
MaxSyncs == 2

\* syncEmployees is called again after it returned; the directory may have
\* changed since
SyncEmployeesAgain ==
    /\ syncCall = "syncEmployees"
    /\ syncOutcome = "returned"
    /\ syncsRun < MaxSyncs
    /\ bambooDirectory' \in SyncDirectories
    /\ syncStep' = StepsOf(syncCall)[1]
    /\ spc' = "create"
    /\ syncId' = {}
    /\ fetchedRecords' = <<>>
    /\ cursor' = 0
    /\ counts' = NoCounts
    /\ syncResults' = NoResults
    /\ syncOutcome' = "none"
    /\ syncLog' = <<[step |-> StepsOf(syncCall)[1], event |-> "called"]>>
    /\ UNCHANGED <<database, activityRows, syncCall, syncsRun>>
    /\ UNCHANGED <<accessVars, tzOffset, calendarVars, weeklyVars, reportVars,
                   productivityVars, cronVars, hasClerkKeys, clerkSession,
                   dbQueries, oracleVars>>

\* the first sync starts from empty tables
InitSupervisors ==
    /\ tzOffset = 0
    /\ AccessIdle
    /\ CalendarIdle
    /\ WeeklyIdle
    /\ ReportIdle
    /\ ProductivityIdle
    /\ CronIdle
    /\ OracleIdle
    /\ hasClerkKeys = FALSE
    /\ clerkSession = [userId |-> "none"]
    /\ dbQueries = TRUE
    /\ bambooDirectory \in SyncDirectories
    /\ activityRows = <<>>
    /\ database = [ hr_employees          |-> <<>>,
                    hr_sync_status        |-> <<>>,
                    hr_productivity_daily |-> {} ]
    /\ SyncCalled("syncEmployees")

\* syncs in which nothing fails
NextSupervisors ==
    \/ CreateSyncStatus
    \/ FetchEmployees
    \/ UpsertEmployee
    \/ UpdateEmployeeSupervisors
    \/ Complete
    \/ SyncEmployeesAgain

SpecSupervisors == InitSupervisors /\ [][NextSupervisors]_vars

\* C28: after an employee sync has returned with success, every stored
\* employee's supervisor_id is the employee_id of the stored employee whose
\* email is the row's supervisor_email, and null when supervisor_email is
\* null (or names no stored employee).
C28_SupervisorIdsFollowEmails ==
    (syncOutcome = "returned" /\ \E r \in syncResults.employees : r.success) =>
        \A k \in 1..Len(database.hr_employees) :
            LET row == database.hr_employees[k] IN
            row.SUPERVISOR_ID =
                IF row.SUPERVISOR_EMAIL = NoEmail THEN {}
                ELSE SupervisorIdsOf(database.hr_employees, row)

-----------------------------------------------------------------------------
(* POST /api/cron/sync together with the sync action it awaits *)

\* the action the switch calls
ActionOf(req) == SyncOperation(req).operation

\* the authorization passed: result = await syncEmployees() /
\* syncProductivityData(days) / runFullSync(days) is called
PostCallsSync ==
    /\ request.method = "POST"
    /\ cpc = "start"
    /\ ~(SecretIsSet /\ ~isAuthorized(request))
    /\ syncCall = "none"
    /\ syncsStarted' = Append(syncsStarted, SyncOperation(request))
    /\ cpc' = "sync"
    /\ syncCall' = ActionOf(request)
    /\ syncStep' = StepsOf(ActionOf(request))[1]
    /\ spc' = "create"
    /\ syncLog' = <<[step |-> StepsOf(ActionOf(request))[1], event |-> "called"]>>
    /\ UNCHANGED <<syncId, fetchedRecords, cursor, counts, syncResults,
                   syncOutcome, syncsRun, bambooDirectory, activityRows>>
    /\ UNCHANGED <<CRON_SECRET, request, response>>
    /\ UNCHANGED <<accessVars, tzOffset, calendarVars, weeklyVars, reportVars,
                   productivityVars, sessionVars, oracleVars>>

\* the awaited action returned: NextResponse.json({ success: true, syncType,
\* result }), whatever the result says; result is given as the SyncResult of
\* each sync function that ran
PostResponds ==
    /\ cpc = "sync"
    /\ syncOutcome = "returned"
    /\ response' = {[status |-> 200, success |-> TRUE,
                     syncType |-> syncType(request), result |-> syncResults]}
    /\ cpc' = "responded"
    /\ UNCHANGED <<CRON_SECRET, request, syncsStarted>>
    /\ UNCHANGED <<accessVars, tzOffset, calendarVars, weeklyVars, reportVars,
                   productivityVars, backendVars>>

\* the awaited action rejected: the catch block answers with status 500
PostRespondsToError ==
    /\ cpc = "sync"
    /\ syncOutcome = "threw"
    /\ response' = {[status |-> 500, success |-> FALSE]}
    /\ cpc' = "responded"
    /\ UNCHANGED <<CRON_SECRET, request, syncsStarted>>
    /\ UNCHANGED <<accessVars, tzOffset, calendarVars, weeklyVars, reportVars,
                   productivityVars, backendVars>>

\* a request to the route of a deployment whose employees table was synced
\* from the directory before
InitCronSync ==
    /\ tzOffset = 0
    /\ AccessIdle
    /\ CalendarIdle
    /\ WeeklyIdle
    /\ ReportIdle
    /\ ProductivityIdle
    /\ OracleIdle
    /\ hasClerkKeys = FALSE
    /\ clerkSession = [userId |-> "none"]
    /\ dbQueries = TRUE
    /\ CRON_SECRET \in { {}, {<<"s">>} }
    /\ request \in [ method        : {"POST", "GET"},
                     authorization : { {}, {Bearer \o <<"s">>} },
                     type          : {"", "employees", "productivity", "full"},
                     days          : {<<>>} ]
    /\ cpc = "start"
    /\ syncsStarted = <<>>
    /\ response = {}
    /\ bambooDirectory \in {d \in SyncDirectories : Len(d) = 3}
    /\ activityRows \in ActivityRowChoices
    /\ database = [ hr_employees          |-> SyncedEmployees(bambooDirectory),
                    hr_sync_status        |-> <<>>,
                    hr_productivity_daily |-> {} ]
    /\ syncCall = "none"
    /\ syncStep = "none"
    /\ spc = "idle"
    /\ syncId = {}
    /\ fetchedRecords = <<>>
    /\ cursor = 0
    /\ counts = NoCounts
    /\ syncResults = NoResults
    /\ syncOutcome = "none"
    /\ syncLog = <<>>
    /\ syncsRun = 0

NextCronSync ==
    \/ PostUnauthorized
    \/ Get
    \/ PostCallsSync
    \/ NextSync
    \/ PostResponds
    \/ PostRespondsToError

SpecCronSync == InitCronSync /\ [][NextCronSync]_vars

\* C30: a POST response with status 200 and success = true is given only
\* when every sync function that ran reported success = true.
C30_SuccessOnlyAfterSuccessfulSync ==
    \A r \in response :
        (request.method = "POST" /\ r.status = 200 /\ r.success) =>
            \A step \in {"employees", "productivity"} :
                \A res \in r.result[step] : res.success

-----------------------------------------------------------------------------
(* The Oracle client (lib/db/oracle.ts): the module's pool, getConnection   *)
(* and executeTransaction, called by concurrent requests.  A caller runs    *)
(* from one await to the next without interruption; a statement is named    *)
(* by its caller and its number in the callback.                            *)

\* the statements a callback executes at most
MaxStatements == 2

\* what the callers of the Oracle client leave alone
oracleFrame == <<accessVars, tzOffset, calendarVars, weeklyVars, reportVars,
                 productivityVars, cronVars, sessionVars, syncVars>>

\* executeTransaction(callback) is called while the pool is null:
\* getConnection's if (!pool) and initializePool's if (pool) both fail, the
\* client is configured (oracledb.autoCommit = true) and createPool is
\* called; the caller waits for it
CallWithoutPool ==
    \E c \in Callers :
        /\ opc[c] = "idle"
        /\ pool = {}
        /\ autoCommit' = TRUE
        /\ createPoolCalls' = Append(createPoolCalls, c)
        /\ opc' = [opc EXCEPT ![c] = "createPool"]
        /\ UNCHANGED <<pool, connections, executed, pending, persisted,
                       txOutcome>>
        /\ UNCHANGED oracleFrame

\* executeTransaction(callback) is called while the pool is set:
\* getConnection goes on to pool.getConnection()
CallWithPool ==
    \E c \in Callers :
        /\ opc[c] = "idle"
        /\ pool # {}
        /\ opc' = [opc EXCEPT ![c] = "getConnection"]
        /\ UNCHANGED <<pool, autoCommit, createPoolCalls, connections, executed,
                       pending, persisted, txOutcome>>
        /\ UNCHANGED oracleFrame

\* pool = await oracledb.createPool(poolConfig) resolves for a caller: the
\* pool of its call is assigned, over whatever pool holds by then
CreatePoolResolves ==
    \E c \in Callers :
        /\ opc[c] = "createPool"
        /\ pool' = {[createdFor |-> c]}
        /\ opc' = [opc EXCEPT ![c] = "getConnection"]
        /\ UNCHANGED <<autoCommit, createPoolCalls, connections, executed,
                       pending, persisted, txOutcome>>
        /\ UNCHANGED oracleFrame

\* createPool rejects: initializePool, getConnection and executeTransaction
\* rethrow; connection is null, so nothing is rolled back or closed
CreatePoolRejects ==
    \E c \in Callers :
        /\ opc[c] = "createPool"
        /\ opc' = [opc EXCEPT ![c] = "done"]
        /\ txOutcome' = [txOutcome EXCEPT ![c] = "threw"]
        /\ UNCHANGED <<pool, autoCommit, createPoolCalls, connections, executed,
                       pending, persisted>>
        /\ UNCHANGED oracleFrame

\* connection = await pool!.getConnection(), of the pool the module holds now
GetConnection ==
    \E c \in Callers :
        /\ opc[c] = "getConnection"
        /\ pool # {}
        /\ connections' = [connections EXCEPT ![c] =
                              {[pool |-> CHOOSE p \in pool : TRUE, open |-> TRUE]}]
        /\ opc' = [opc EXCEPT ![c] = "callback"]
        /\ UNCHANGED <<pool, autoCommit, createPoolCalls, executed, pending,
                       persisted, txOutcome>>
        /\ UNCHANGED oracleFrame

\* the effect of connection.execute(sql, binds) with the default options:
\* with autoCommit the statement and what the connection had pending are
\* committed at once, without it the statement stays pending
ExecuteOn(c, statement) ==
    IF autoCommit
    THEN /\ persisted' = persisted \cup pending[c] \cup {statement}
         /\ pending' = [pending EXCEPT ![c] = {}]
    ELSE /\ pending' = [pending EXCEPT ![c] = @ \cup {statement}]
         /\ UNCHANGED persisted

\* the callback executes a statement on the connection
CallbackExecutes ==
    \E c \in Callers :
        /\ opc[c] = "callback"
        /\ executed[c] < MaxStatements
        /\ executed' = [executed EXCEPT ![c] = @ + 1]
        /\ ExecuteOn(c, <<c, executed[c] + 1>>)
        /\ UNCHANGED <<pool, autoCommit, createPoolCalls, opc, connections,
                       txOutcome>>
        /\ UNCHANGED oracleFrame

\* the callback returns: await connection.commit()
CallbackReturns ==
    \E c \in Callers :
        /\ opc[c] = "callback"
        /\ persisted' = persisted \cup pending[c]
        /\ pending' = [pending EXCEPT ![c] = {}]
        /\ txOutcome' = [txOutcome EXCEPT ![c] = "returned"]
        /\ opc' = [opc EXCEPT ![c] = "finally"]
        /\ UNCHANGED <<pool, autoCommit, createPoolCalls, connections, executed>>
        /\ UNCHANGED oracleFrame

\* the callback throws: the catch block rolls the connection back and
\* rethrows
CallbackThrows ==
    \E c \in Callers :
        /\ opc[c] = "callback"
        /\ pending' = [pending EXCEPT ![c] = {}]
        /\ txOutcome' = [txOutcome EXCEPT ![c] = "threw"]
        /\ opc' = [opc EXCEPT ![c] = "finally"]
        /\ UNCHANGED <<pool, autoCommit, createPoolCalls, connections, executed,
                       persisted>>
        /\ UNCHANGED oracleFrame

\* the finally block: await connection.close()
CloseConnection ==
    \E c \in Callers :
        /\ opc[c] = "finally"
        /\ connections' = [connections EXCEPT ![c] =
                              {[conn EXCEPT !.open = FALSE] : conn \in @}]
        /\ opc' = [opc EXCEPT ![c] = "done"]
        /\ UNCHANGED <<pool, autoCommit, createPoolCalls, executed, pending,
                       persisted, txOutcome>>
        /\ UNCHANGED oracleFrame

\* the process has just started: let pool = null, oracledb.autoCommit at
\* its default
InitOracle ==
    /\ tzOffset = 0
    /\ AccessIdle
    /\ CalendarIdle
    /\ WeeklyIdle
    /\ ReportIdle
    /\ ProductivityIdle
    /\ CronIdle
    /\ SessionIdle
    /\ SyncIdle
    /\ OracleIdle

NextOracle ==
    \/ CallWithoutPool
    \/ CallWithPool
    \/ CreatePoolResolves
    \/ CreatePoolRejects
    \/ GetConnection
    \/ CallbackExecutes
    \/ CallbackReturns
    \/ CallbackThrows
    \/ CloseConnection

SpecOracle == InitOracle /\ [][NextOracle]_vars

\* C27: createPool is called at most once in a process, and all connections
\* come from the same pool.
C27_OnePoolPerProcess ==
    /\ Len(createPoolCalls) <= 1
    /\ \A c, d \in Callers :
           \A x \in connections[c] : \A y \in connections[d] : x.pool = y.pool

\* C25: when executeTransaction has ended for a caller, its connection is
\* closed; if it threw, none of the callback's statements is persisted; if it
\* returned, all of them are.
C25_TransactionIsAtomic ==
    \A c \in Callers :
        opc[c] = "done" =>
            /\ \A conn \in connections[c] : ~conn.open
            /\ txOutcome[c] = "threw" =>
                   \A n \in 1..executed[c] : <<c, n>> \notin persisted
            /\ txOutcome[c] = "returned" =>
                   \A n \in 1..executed[c] : <<c, n>> \in persisted

====
